---- MODULE Spec2Model ----
(***************************************************************************)
(* Asynchronous document processing orchestrator of subscript-app:         *)
(* the document registry (server/main.py, class Document), the four celery *)
(* tasks of server/tasks.py and the request handlers of server/main.py     *)
(* that create, rebuild and delete documents.                              *)
(*                                                                         *)
(* A step of the model is one access to shared state (one registry read,   *)
(* one commit, one file-system operation, one run of the pipeline); the    *)
(* code between two such accesses is local to its worker and is part of    *)
(* the step that follows it.  Registry sessions are SQLAlchemy sessions    *)
(* with expire_on_commit: an attribute read after a commit re-reads the    *)
(* row (ObjectDeletedError when the row is gone) and a commit that         *)
(* updates a row that is gone raises StaleDataError ("0 were matched").    *)
(***************************************************************************)
EXTENDS Integers, Sequences, FiniteSets, TLC

\* ---------------------------------------------------------------- bounds
\* largest document id
MaxDocs == 4

\* pages of a container whose processing is followed from the upload
MaxPages == 2

\* storage directories ever created (uploads)
MaxDirs == 1

\* delete and rebuild requests ever made
MaxReqs == 1

\* lines of the longest pipeline output
MaxLines == 14

\* regions of the largest page
MaxRegions == 2

\* id attributes of the longest sample markup
MaxIds == 2

\* process-single jobs run again for a document that is completed
MaxRuns == 2
MaxNames == 3
MaxRun == 2

\* the limit and the period of the rate limit of a login (10 calls, 60 s in
\* the source), the calls made and the seconds that pass
MaxLimit == 2
MaxPeriod == 2
MaxCalls == 4
MaxTime == 4

\* the rows of the users table, the invitations, and the register
\* requests and admin requests made
MaxUsers == 3
MaxInvites == 1
MaxRegs == 2
MaxOps == 2

\* the preference requests made
MaxPrefs == 3

\* ------------------------------------------------------ program constants
\* full_output[-10:]
TailLines == 10

VARIABLES docs, fs, jobs, reqs, nextDir, hist,
          users, invitations, preferences, redis, now

\* the registry of documents with its files, jobs and requests, and the
\* stores of the rest of the server: the users, invitations and
\* user_preferences tables, the counters kept in Redis and the clock
registry == <<docs, fs, jobs, reqs, nextDir, hist>>

site == <<users, invitations, preferences, redis, now>>

DocIds == 1..MaxDocs

\* the directory names a handler can draw (secrets.token_hex), and these
\* with one more name, of a directory made before a scenario starts
FreshDirs == 1..MaxDirs

Dirs == 1..(MaxDirs + 1)

\* ------------------------------------------------------------ file names
\* A file name is base + extension, a path is directory + file name.
FileName(base, ext) == [base |-> base, ext |-> ext]

NoName == FileName(-1, "none")

NoPath == [dir |-> 0, base |-> -1, ext |-> "none"]

\* os.path.join(dir, name)
join(dir, name) == [dir |-> dir, base |-> name.base, ext |-> name.ext]

\* os.path.dirname(path)
dirname(path) == path.dir

\* os.path.basename(path)
basename(path) == FileName(path.base, path.ext)

\* os.path.splitext(name)[0]
splitext0(name) == name.base

\* os.path.splitext(path)[0] + ext
WithExt(path, ext) == [dir |-> path.dir, base |-> path.base, ext |-> ext]

\* -------------------------------------------------------------- registry
NoErr == [kind |-> "none", tail |-> <<>>]

NoDoc ==
  [exists |-> FALSE, status |-> "none", err |-> NoErr, txt |-> NoPath,
   pdf |-> NoPath, isc |-> FALSE, parent |-> 0, order |-> 0, dir |-> 0,
   fname |-> NoName]

\* Document(filename=..., status=..., directory_name=..., ...): the columns
\* not named take their defaults (is_container False, page_order 0,
\* parent_id NULL, no paths, no error message).
Document(fname, status, isc, parent, order, dir) ==
  [exists |-> TRUE, status |-> status, err |-> NoErr, txt |-> NoPath,
   pdf |-> NoPath, isc |-> isc, parent |-> parent, order |-> order,
   dir |-> dir, fname |-> fname]

Present == {d \in DocIds : docs[d].exists}

RECURSIVE SetMax(_)
SetMax(S) ==
  IF S = {} THEN 0
  ELSE LET x == CHOOSE y \in S : TRUE
           m == SetMax(S \ {x})
       IN IF x > m THEN x ELSE m

\* The registry is SQLite and Document.id an INTEGER PRIMARY KEY without
\* AUTOINCREMENT: a new row takes the largest id in the table plus one.
NewId == SetMax(Present) + 1

ChildrenOf(p) == {d \in Present : docs[d].parent = p}

\* the registry after a commit has written rows: status histories follow
HistAfter(new) ==
  [d \in DocIds |->
     IF ~new[d].exists THEN <<>>
     ELSE IF ~docs[d].exists THEN <<new[d].status>>
     ELSE IF new[d].status # docs[d].status THEN Append(hist[d], new[d].status)
     ELSE hist[d]]

Commit(new) == docs' = new /\ hist' = HistAfter(new)

\* ------------------------------------------------------------- sessions
\* The uncommitted attribute values of one object of a session: cols names
\* the attributes that were assigned.
Pend(cols, status, err, txt, pdf) ==
  [cols |-> cols, status |-> status, err |-> err, txt |-> txt, pdf |-> pdf]

NoPend == Pend({}, "none", NoErr, NoPath, NoPath)

\* The attributes a flush writes: those assigned a value that differs from
\* the loaded one; an attribute assigned while expired (snap = NoDoc) is
\* always written, and so is last_modified ("modified"), which is assigned
\* datetime.utcnow().
Dirty(snap, pend) ==
  {c \in pend.cols : c = "modified" \/ ~snap.exists \/ snap[c] # pend[c]}

\* UPDATE documents SET <dirty columns> WHERE id = ...
Updated(row, pend, cols) ==
  [row EXCEPT !.status = IF "status" \in cols THEN pend.status ELSE @,
              !.err = IF "err" \in cols THEN pend.err ELSE @,
              !.txt = IF "txt" \in cols THEN pend.txt ELSE @,
              !.pdf = IF "pdf" \in cols THEN pend.pdf ELSE @]

\* a flush of object d raises StaleDataError: it has something to write and
\* the row is gone
Stale(d, snap, pend) == Dirty(snap, pend) # {} /\ ~docs[d].exists

\* the registry after a successful flush of object d
Flushed(ds, d, snap, pend) ==
  [ds EXCEPT ![d] = Updated(@, pend, Dirty(snap, pend))]

\* db.query(Document).filter(Document.parent_id == parent.id).count()
total_children(p) == Cardinality(ChildrenOf(p))

\* a count of the children that have ended, in error or completed
completed_children_ended(p) ==
  Cardinality({d \in ChildrenOf(p) : docs[d].status \in {"completed", "error"}})

\* ... .filter(Document.parent_id == parent.id, Document.status == "completed").count()
completed_children(p) ==
  Cardinality({d \in ChildrenOf(p) : docs[d].status = "completed"})

\* ----------------------------------------------------------------- markup
\* The markup file of a page is followed by the id attributes of its
\* elements, in document order; an id is a sequence of characters.
Digits == {"0", "1", "2", "3", "4", "5", "6", "7", "8", "9"}

DigitOf(n) == <<"0", "1", "2", "3", "4", "5", "6", "7", "8", "9">>[n + 1]

RECURSIVE str(_)
\* the decimal digits of a natural number, as an f-string formats it
str(n) == IF n < 10 THEN <<DigitOf(n)>> ELSE str(n \div 10) \o <<DigitOf(n % 10)>>

\* The regions the segmentation finds in an image; the images of the model
\* are told apart by their names.
Regions(name) ==
  (name.base + (IF name.ext = "png" THEN 1 ELSE 0)) % (MaxRegions + 1)

\* for i, region in enumerate(regions): TextRegion {"id": f"r{i}"}
generate_xml(n) == [i \in 1..n |-> <<"r">> \o str(i - 1)]

\* r'(id=["\'])(r\d+)(["\'])': the attribute value is the letter followed by
\* one or more digits, and nothing else
Matches(letter, val) ==
  /\ Len(val) >= 2
  /\ val[1] = letter
  /\ \A i \in 2..Len(val) : val[i] \in Digits

\* page_prefix = f"p{page_order}_"
page_prefix(order) == <<"p">> \o str(order) \o <<"_">>

\* the page number appended to the identifier
replace_id_suffixed(val, order) == val \o str(order)

\* def replace_id(match): if val.startswith("p"): return match.group(0);
\* return f'{prefix}{page_prefix}{val}{suffix}'
replace_id(val, order) ==
  IF val[1] = "p" THEN val ELSE page_prefix(order) \o val

\* re.sub(pattern, replace_id, content) for the pattern of one letter
sub(letter, content, order) ==
  [i \in 1..Len(content) |->
     IF Matches(letter, content[i]) THEN replace_id(content[i], order)
     ELSE content[i]]

\* content = re.sub(... r\d+ ...); content = re.sub(... l\d+ ...)
uniquify(content, order) == sub("l", sub("r", content, order), order)

\* ----------------------------------------------------------- file system
\* the base names a file of the model can have
Bases == 0..MaxDocs

\* the content of the markup files of a directory, by base name (<<>> where
\* there is no such file)
NoXml == [b \in Bases |-> <<>>]

NoDir == [exists |-> FALSE, files |-> {}, xml |-> NoXml]

\* os.makedirs(dir, exist_ok=True)
makedirs(f, dir) == [f EXCEPT ![dir].exists = TRUE]

\* shutil.rmtree(dir, ignore_errors=True)
rmtree(f, dir) == [f EXCEPT ![dir] = NoDir]

\* os.path.exists(dir)
\* a check that takes every named directory to be there
DirExists_assumed(dir) == dir \in Dirs

DirExists(dir) == dir \in Dirs /\ fs[dir].exists

\* os.path.exists(path) for a file
FileExists(path) ==
  /\ path.dir \in Dirs
  /\ fs[path.dir].exists
  /\ basename(path) \in fs[path.dir].files

\* Post-Process XML: if os.path.exists(xml_path): content = f.read();
\* page_prefix = f"p{page_order}_"; the two re.sub; f.write(content)
Rewritten(f, dir, base, order) ==
  IF dir \in Dirs /\ f[dir].exists /\ FileName(base, "xml") \in f[dir].files
  THEN [f EXCEPT ![dir].xml[base] = uniquify(@, order)]
  ELSE f

\* -------------------------------------------------------- pipeline output
\* A line of the pipeline's combined output: 0 is a line that is empty
\* after strip(), any other number is a line with text.
Lines(n) == [i \in 1..n |-> IF i % 4 = 0 THEN 0 ELSE i]

\* the outputs a failing pipeline is given: a short one, and a long one
\* with more than TailLines lines of text
OutputSamples == {Lines(3), Lines(MaxLines)}

RECURSIVE NonEmpty(_)
\* for line in proc.stdout: line = line.strip(); if line: full_output.append(line)
NonEmpty(out) ==
  IF out = <<>> THEN <<>>
  ELSE IF Head(out) = 0 THEN NonEmpty(Tail(out))
  ELSE <<Head(out)>> \o NonEmpty(Tail(out))

\* s[-n:]
LastN(s, n) ==
  IF Len(s) <= n THEN s ELSE SubSeq(s, Len(s) - n + 1, Len(s))

\* the last lines of the output with its blank lines kept
error_msg_raw(out) == LastN(out, TailLines)

\* error_msg = "\n".join(full_output[-10:])
error_msg(out) == LastN(NonEmpty(out), TailLines)

\* doc.error_message = f"Subscript failed: {e.stderr}"
SubscriptFailed(out) == [kind |-> "subscript", tail |-> error_msg(out)]

\* doc.error_message = str(e)
ExcMessage(text) == [kind |-> text, tail |-> <<>>]

\* ------------------------------------------------------------------ jobs
\* A celery task from .delay() to its end.  pc "queued" is the message in
\* the broker; rc is how the pipeline ended (-1 before it has ended, 0 exit
\* code 0 or a normal return, 1 a non-zero exit, 2 an exception); snap is
\* the row of the job's document as the session has loaded it (NoDoc when
\* expired), pend the session's uncommitted change of it; kids are the
\* children the session has loaded (kclean: those loaded with the status
\* that is then assigned to them) and kpend the uncommitted change of them;
\* gone records that the row was missing when the pipeline ended; raised
\* tells that the task ended by an exception.
\* sys.argv of a worker process before any task has assigned it
celery_argv == [mode |-> "celery", inputs |-> <<>>, combine |-> NoPath]

\* sys.argv = ["subscript", "--config", ..., model] + file_paths +
\*            ["--combine", output_pdf_path, "--output", output_dir]
batch_argv(file_paths, pdf) ==
  [mode |-> "batch", inputs |-> file_paths, combine |-> pdf]

\* sys.argv = ["subscript", "--combine", output_pdf_path] + child_paths
merge_argv(pdf, kid_paths) ==
  [mode |-> "combine", inputs |-> kid_paths, combine |-> pdf]

\* sys.argv = ["subscript", file_path, "--onlypdf", "--output", output_dir]
rebuild_argv(file_path) ==
  [mode |-> "onlypdf", inputs |-> <<file_path>>, combine |-> NoPath]

\* proc is the worker process that runs the task (0: a process that runs
\* nothing else while the task runs); argv is sys.argv of that process,
\* original_argv the value the task has saved, args the arguments the
\* pipeline has parsed.
Job(kind, doc, path, paths) ==
  [kind |-> kind, doc |-> doc, path |-> path, paths |-> paths,
   pc |-> "queued", rc |-> -1, out |-> <<>>, snap |-> NoDoc,
   pend |-> NoPend, parent |-> 0, total |-> 0, kids |-> {},
   kclean |-> {}, kpend |-> "none", gone |-> FALSE, raised |-> FALSE,
   proc |-> 0, argv |-> celery_argv, original_argv |-> celery_argv,
   args |-> celery_argv]

JobIds == 1..Len(jobs)

\* task.delay(...)
delay(js, job) == Append(js, job)

At(j, kind, pc) == jobs[j].kind = kind /\ jobs[j].pc = pc

Goto(j, pc) == jobs' = [jobs EXCEPT ![j].pc = pc]

\* db.close(): the task has ended and its session is gone
Closed(job) ==
  [job EXCEPT !.pc = "done", !.snap = NoDoc, !.pend = NoPend, !.parent = 0,
              !.total = 0, !.kids = {}, !.kclean = {}, !.kpend = "none",
              !.original_argv = celery_argv, !.args = celery_argv]

Finish(j) == jobs' = [jobs EXCEPT ![j] = Closed(@)]

\* sys.argv is one value per process: an assignment by task j is seen by
\* every task of the same process
SetArgv(js, j, a) ==
  [i \in DOMAIN js |->
     IF i = j \/ (js[j].proc # 0 /\ js[i].proc = js[j].proc)
     THEN [js[i] EXCEPT !.argv = a]
     ELSE js[i]]

\* finally: sys.argv = original_argv
Restored(js, j) == SetArgv(js, j, jobs[j].original_argv)

FinishRestored(j) == jobs' = Restored([jobs EXCEPT ![j] = Closed(@)], j)

\* the task ends by an exception that no handler of the task catches
Raise(j) == jobs' = [jobs EXCEPT ![j] = [Closed(@) EXCEPT !.raised = TRUE]]

\* the same after the finally clause has assigned sys.argv
RaiseRestored(j) ==
  jobs' = Restored([jobs EXCEPT ![j] = [Closed(@) EXCEPT !.raised = TRUE]], j)

\* --------------------------------------------------- process_document_task
\* doc = db.query(Document).filter(Document.id == doc_id).first()
pdt_query ==
  \E j \in JobIds :
    /\ At(j, "single", "queued")
    /\ LET d == jobs[j].doc IN
       IF docs[d].exists
       THEN jobs' = [jobs EXCEPT ![j].pc = "commit_processing", ![j].snap = docs[d]]
       ELSE Finish(j)
    /\ UNCHANGED <<docs, fs, reqs, nextDir, hist, site>>

\* doc.status = "processing"; db.commit()   (outside the try block)
Processing == Pend({"status"}, "processing", NoErr, NoPath, NoPath)

pdt_commit_processing ==
  \E j \in JobIds :
    /\ At(j, "single", "commit_processing")
    /\ LET d == jobs[j].doc IN
       IF Stale(d, jobs[j].snap, Processing)
       THEN Raise(j) /\ UNCHANGED <<docs, hist>>
       ELSE /\ Commit(Flushed(docs, d, jobs[j].snap, Processing))
            /\ jobs' = [jobs EXCEPT ![j].pc = "makedirs", ![j].snap = NoDoc]
    /\ UNCHANGED <<fs, reqs, nextDir, site>>

\* output_dir = os.path.dirname(file_path); os.makedirs(output_dir, exist_ok=True)
pdt_makedirs ==
  \E j \in JobIds :
    /\ At(j, "single", "makedirs")
    /\ fs' = makedirs(fs, dirname(jobs[j].path))
    /\ Goto(j, "load")
    /\ UNCHANGED <<docs, reqs, nextDir, hist, site>>

\* doc.filename, doc.id: the first attribute read after the commit reloads
\* the row; a missing row raises ObjectDeletedError, the handler of
\* Exception rolls back, finds no row and returns.
pdt_load ==
  \E j \in JobIds :
    /\ At(j, "single", "load")
    /\ LET d == jobs[j].doc IN
       IF docs[d].exists
       THEN jobs' = [jobs EXCEPT ![j].pc = "popen", ![j].snap = docs[d]]
       ELSE Goto(j, "cleanup")
    /\ UNCHANGED <<docs, fs, reqs, nextDir, hist, site>>

\* except Exception as e: db.rollback(); the row is looked up; when it is
\* there, doc.status = "error"; doc.error_message = str(e)
ErrorPend(msg) == Pend({"status", "err"}, "error", msg, NoPath, NoPath)

\* subprocess.Popen(cmd, ...): the pipeline starts and expands its input
\* (subscript.py: glob.glob(pattern); no input files -> sys.exit(1))
pdt_popen ==
  \E j \in JobIds :
    /\ At(j, "single", "popen")
    /\ \/ /\ FileExists(jobs[j].path)
          /\ Goto(j, "pipeline")
       \/ /\ ~FileExists(jobs[j].path)
          /\ \E o \in OutputSamples :
               jobs' = [jobs EXCEPT ![j].pc = "after", ![j].rc = 1, ![j].out = o]
    /\ UNCHANGED <<docs, fs, reqs, nextDir, hist, site>>

\* subprocess.Popen raises OSError (the executable cannot be started): the
\* handler of Exception rolls back, looks the row up and, when it is there,
\* assigns the error status.
pdt_popen_oserror ==
  \E j \in JobIds :
    /\ At(j, "single", "popen")
    /\ IF docs[jobs[j].doc].exists
       THEN jobs' = [jobs EXCEPT ![j].pc = "finally", ![j].rc = 2,
                                  ![j].snap = NoDoc,
                                  ![j].pend = ErrorPend(ExcMessage("OSError"))]
       ELSE jobs' = [jobs EXCEPT ![j].pc = "cleanup", ![j].rc = 2]
    /\ UNCHANGED <<docs, fs, reqs, nextDir, hist, site>>

\* The files output_engine.generate() writes for one input (modules/output.py)
Outputs(path) ==
  {FileName(path.base, "txt"), FileName(path.base, "pdf"), FileName(path.base, "xml")}

\* os.makedirs(output_dir, exist_ok=True) and the writes of generate()
generate(f, path) ==
  [f EXCEPT ![dirname(path)] =
     [exists |-> TRUE, files |-> @.files \cup Outputs(path),
      xml |-> [@.xml EXCEPT ![path.base] = generate_xml(Regions(basename(path)))]]]

\* The pipeline runs to its exit: it writes the outputs of its input and
\* exits 0, or a page fails (logged, exit 0, nothing written), or the
\* engines fail to initialise (exit 1).
pdt_pipeline ==
  \E j \in JobIds :
    /\ At(j, "single", "pipeline")
    /\ \/ /\ fs' = generate(fs, jobs[j].path)
          /\ jobs' = [jobs EXCEPT ![j].pc = "after", ![j].rc = 0]
       \/ /\ jobs' = [jobs EXCEPT ![j].pc = "after", ![j].rc = 0]
          /\ UNCHANGED fs
       \/ /\ \E o \in OutputSamples :
               jobs' = [jobs EXCEPT ![j].pc = "after", ![j].rc = 1, ![j].out = o]
          /\ UNCHANGED fs
    /\ UNCHANGED <<docs, reqs, nextDir, hist, site>>

\* a txt path whose name is numbered after the input's
output_txt_path_numbered(file_path) ==
  join(dirname(file_path), FileName(splitext0(basename(file_path)) + 1, "txt"))

\* doc.output_txt_path = os.path.join(output_dir, f"{base_name}.txt")
output_txt_path(file_path) ==
  join(dirname(file_path), FileName(splitext0(basename(file_path)), "txt"))

\* the pdf path with the input's extension kept in the name
output_pdf_path_keepext(file_path) ==
  join(dirname(file_path), FileName(splitext0(basename(file_path)), file_path.ext))

\* doc.output_pdf_path = os.path.join(output_dir, f"{base_name}.pdf")
output_pdf_path(file_path) ==
  join(dirname(file_path), FileName(splitext0(basename(file_path)), "pdf"))

\* doc.status = "completed"; doc.output_txt_path = ...; doc.output_pdf_path = ...
CompletedPend(file_path) ==
  Pend({"status", "txt", "pdf"}, "completed", NoErr,
       output_txt_path(file_path), output_pdf_path(file_path))

\* proc.wait(); returncode != 0 raises CalledProcessError (db.rollback(),
\* status error, "Subscript failed: ..."); otherwise the output directory is
\* checked (return when it is gone), the completed status and the output
\* paths are assigned and, if doc.parent_id, the markup of the page is
\* post-processed.
pdt_after ==
  \E j \in JobIds :
    /\ At(j, "single", "after")
    /\ IF jobs[j].rc # 0
       THEN /\ jobs' = [jobs EXCEPT ![j].pc = "finally", ![j].snap = NoDoc,
                          ![j].pend = ErrorPend(SubscriptFailed(jobs[j].out))]
            /\ UNCHANGED fs
       ELSE IF ~DirExists(dirname(jobs[j].path))
       THEN Goto(j, "cleanup") /\ UNCHANGED fs
       ELSE /\ jobs' = [jobs EXCEPT ![j].pc = "commit_completed",
                                     ![j].pend = CompletedPend(jobs[j].path)]
            /\ fs' = IF jobs[j].snap.parent # 0
                     THEN Rewritten(fs, dirname(jobs[j].path), jobs[j].path.base,
                                    jobs[j].snap.order)
                     ELSE fs
    /\ UNCHANGED <<docs, reqs, nextDir, hist, site>>

\* db.commit() "so sibling check sees it"; a row that is gone raises
\* StaleDataError ("0 were matched"): rollback and return.
pdt_commit_completed ==
  \E j \in JobIds :
    /\ At(j, "single", "commit_completed")
    /\ LET d == jobs[j].doc IN
       IF Stale(d, jobs[j].snap, jobs[j].pend)
       THEN /\ jobs' = [jobs EXCEPT ![j].pc = "cleanup", ![j].pend = NoPend,
                                    ![j].snap = NoDoc]
            /\ UNCHANGED <<docs, hist>>
       ELSE /\ Commit(Flushed(docs, d, jobs[j].snap, jobs[j].pend))
            /\ jobs' = [jobs EXCEPT ![j].pc = "parent", ![j].pend = NoPend,
                                    ![j].snap = NoDoc]
    /\ UNCHANGED <<fs, reqs, nextDir, site>>

\* the uncommitted changes of the session are kept
rollback_kept(pend) == pend

\* db.rollback(): the uncommitted changes of the session are discarded
rollback(pend) == NoPend

\* doc.status = "error"; doc.error_message = str(e), assigned in a session
\* whose uncommitted changes are pend
ErrorAfter(pend, msg) ==
  [pend EXCEPT !.cols = @ \cup {"status", "err"}, !.status = "error", !.err = msg]

\* db.commit() raises an exception that is no StaleDataError (sqlite3
\* "database is locked" after the busy timeout): the handler of Exception
\* rolls back, looks the row up and, when it is there, assigns the error
\* status; when it is gone the handler returns.
pdt_commit_failed ==
  \E j \in JobIds :
    /\ At(j, "single", "commit_completed")
    /\ IF docs[jobs[j].doc].exists
       THEN jobs' = [jobs EXCEPT ![j].pc = "finally", ![j].rc = 2,
                                  ![j].snap = NoDoc,
                                  ![j].pend = ErrorAfter(rollback(@),
                                                         ExcMessage("OperationalError"))]
       ELSE jobs' = [jobs EXCEPT ![j].pc = "cleanup", ![j].rc = 2,
                                  ![j].snap = NoDoc, ![j].pend = NoPend]
    /\ UNCHANGED <<docs, fs, reqs, nextDir, hist, site>>

\* if doc.parent_id: parent = db.query(Document).filter(Document.id == doc.parent_id).first()
\* (doc.parent_id reloads the row; ObjectDeletedError when it is gone)
pdt_parent ==
  \E j \in JobIds :
    /\ At(j, "single", "parent")
    /\ LET d == jobs[j].doc IN
       IF docs[d].exists /\ docs[d].parent # 0 /\ docs[docs[d].parent].exists
       THEN jobs' = [jobs EXCEPT ![j].pc = "count_total",
                                  ![j].parent = docs[d].parent]
       ELSE Goto(j, "cleanup")
    /\ UNCHANGED <<docs, fs, reqs, nextDir, hist, site>>

\* total_children = db.query(Document).filter(Document.parent_id == parent.id).count()
pdt_count_total ==
  \E j \in JobIds :
    /\ At(j, "single", "count_total")
    /\ jobs' = [jobs EXCEPT ![j].pc = "count_completed",
                            ![j].total = total_children(jobs[j].parent)]
    /\ UNCHANGED <<docs, fs, reqs, nextDir, hist, site>>

\* a comparison that asks for more completed children than there are
trigger_merge_exceeds(total, completed) == completed > total

\* if total_children == completed_children:
trigger_merge(total, completed) == total = completed

\* completed_children = ...count(); merge_document_task.delay(parent.id)
pdt_count_completed ==
  \E j \in JobIds :
    /\ At(j, "single", "count_completed")
    /\ IF trigger_merge(jobs[j].total, completed_children(jobs[j].parent))
       THEN jobs' = delay([jobs EXCEPT ![j].pc = "cleanup"],
                          Job("merge", jobs[j].parent, NoPath, <<>>))
       ELSE Goto(j, "cleanup")
    /\ UNCHANGED <<docs, fs, reqs, nextDir, hist, site>>

\* finally: db.commit() of the error status assigned by an except clause;
\* when the row is gone the commit raises and the cleanup is not reached.
pdt_finally ==
  \E j \in JobIds :
    /\ At(j, "single", "finally")
    /\ LET d == jobs[j].doc IN
       IF Stale(d, jobs[j].snap, jobs[j].pend)
       THEN Raise(j) /\ UNCHANGED <<docs, hist>>
       ELSE /\ Commit(Flushed(docs, d, jobs[j].snap, jobs[j].pend))
            /\ jobs' = [jobs EXCEPT ![j].pc = "cleanup", ![j].pend = NoPend]
    /\ UNCHANGED <<fs, reqs, nextDir, site>>

\* Anti-Zombie Cleanup: db.expire_all(); the row is re-read and, when it is
\* gone, output_dir is removed.
zombie_cleanup(f, d, dir) ==
  IF ~docs[d].exists /\ DirExists(dir) THEN rmtree(f, dir) ELSE f

pdt_cleanup ==
  \E j \in JobIds :
    /\ At(j, "single", "cleanup")
    /\ fs' = zombie_cleanup(fs, jobs[j].doc, dirname(jobs[j].path))
    /\ Finish(j)
    /\ UNCHANGED <<docs, reqs, nextDir, hist, site>>

\* ----------------------------------------------------- merge_document_task
\* parent = db.query(Document).filter(Document.id == parent_id).first()
\* try: original_argv = sys.argv
mdt_query ==
  \E j \in JobIds :
    /\ At(j, "merge", "queued")
    /\ LET d == jobs[j].doc IN
       IF docs[d].exists
       THEN jobs' = [jobs EXCEPT ![j].pc = "commit_merging", ![j].snap = docs[d],
                                  ![j].original_argv = jobs[j].argv]
       ELSE Finish(j)
    /\ UNCHANGED <<docs, fs, reqs, nextDir, hist, site>>

\* parent.status = "merging"; db.commit()   (inside the try block: when the
\* row is gone, the except clause assigns the error status and the commit
\* of the finally clause raises again)
Merging == Pend({"status"}, "merging", NoErr, NoPath, NoPath)

mdt_commit_merging ==
  \E j \in JobIds :
    /\ At(j, "merge", "commit_merging")
    /\ LET d == jobs[j].doc IN
       IF Stale(d, jobs[j].snap, Merging)
       THEN RaiseRestored(j) /\ UNCHANGED <<docs, hist>>
       ELSE /\ Commit(Flushed(docs, d, jobs[j].snap, Merging))
            /\ jobs' = [jobs EXCEPT ![j].pc = "children", ![j].snap = NoDoc]
    /\ UNCHANGED <<fs, reqs, nextDir, site>>

RECURSIVE SortedByPageOrderDesc(_)
\* the children in descending page_order
SortedByPageOrderDesc(S) ==
  IF S = {} THEN <<>>
  ELSE LET last == CHOOSE d \in S : \A e \in S :
                     \/ docs[d].order > docs[e].order
                     \/ docs[d].order = docs[e].order /\ d >= e
       IN <<last>> \o SortedByPageOrderDesc(S \ {last})

RECURSIVE SortedByPageOrder(_)
\* .order_by(Document.page_order).all(): ascending page_order, rows of equal
\* page_order in id order
SortedByPageOrder(S) ==
  IF S = {} THEN <<>>
  ELSE LET first == CHOOSE d \in S : \A e \in S :
                      \/ docs[d].order < docs[e].order
                      \/ docs[d].order = docs[e].order /\ d <= e
       IN <<first>> \o SortedByPageOrder(S \ {first})

\* child_full_path = os.path.join(child_dir, child.filename)
child_paths(kids) ==
  [i \in 1..Len(kids) |-> join(docs[kids[i]].dir, docs[kids[i]].fname)]

\* an output name that depends on how many jobs there are
merged_pdf_path_numbered(row) ==
  join(row.dir, FileName(row.fname.base + Len(jobs), row.fname.ext))

\* output_pdf_path = os.path.join(parent_dir, parent.filename)
merged_pdf_path(row) == join(row.dir, row.fname)

\* parent.output_txt_path = os.path.splitext(output_pdf_path)[0] + ".txt"
merged_txt_path(row) == WithExt(merged_pdf_path(row), "txt")

\* children = db.query(Document).filter(Document.parent_id == parent.id)
\*              .order_by(Document.page_order).all()
\* if not children: raise Exception("No children found to merge")
\* sys.argv = ["subscript", "--combine", output_pdf_path] + child_paths
mdt_children ==
  \E j \in JobIds :
    /\ At(j, "merge", "children")
    /\ LET d == jobs[j].doc IN
       IF ~docs[d].exists
       THEN RaiseRestored(j)
       ELSE IF ChildrenOf(d) = {}
       THEN jobs' = [jobs EXCEPT ![j].pc = "finally", ![j].snap = docs[d],
                       ![j].pend = ErrorPend(ExcMessage("No children found to merge"))]
       ELSE LET kid_paths == child_paths(SortedByPageOrder(ChildrenOf(d))) IN
            jobs' = SetArgv([jobs EXCEPT ![j].pc = "pipeline", ![j].snap = docs[d],
                               ![j].kids = ChildrenOf(d),
                               ![j].path = merged_pdf_path(docs[d]),
                               ![j].paths = kid_paths],
                            j, merge_argv(merged_pdf_path(docs[d]), kid_paths))
    /\ UNCHANGED <<docs, fs, reqs, nextDir, hist, site>>

\* parent.status = "completed"; parent.output_pdf_path = output_pdf_path;
\* parent.output_txt_path = ...; parent.last_modified = datetime.utcnow()
MergedPend(pdf) ==
  Pend({"status", "txt", "pdf", "modified"}, "completed", NoErr,
       WithExt(pdf, "txt"), pdf)

\* process_batch_task assigns the same but not last_modified
BatchPend(pdf) ==
  Pend({"status", "txt", "pdf"}, "completed", NoErr, WithExt(pdf, "txt"), pdf)

\* the combined pdf and txt written by combine_pdfs / combine_txts
Combined(pdf) == {basename(pdf), basename(WithExt(pdf, "txt"))}

AnyInput(paths) == \E i \in 1..Len(paths) : FileExists(paths[i])

\* the outputs of the inputs, and the combined pdf and txt
BatchOutputs(paths, pdf) ==
  UNION {Outputs(paths[i]) : i \in 1..Len(paths)} \cup Combined(pdf)

RECURSIVE BatchMarkup(_, _)
\* the markup files of the output directory after generate() has run for
\* each input in turn (the markup of an input is written to <base>.xml)
BatchMarkup(x, paths) ==
  IF paths = <<>> THEN x
  ELSE BatchMarkup([x EXCEPT ![Head(paths).base] =
                      generate_xml(Regions(basename(Head(paths))))],
                   Tail(paths))

\* the arguments as the pipeline parses them from sys.argv: the input
\* patterns are expanded to the files that exist (glob.glob)
Parsed(a) == [a EXCEPT !.inputs = SelectSeq(@, FileExists)]

\* no input files -> sys.exit(1); an argument vector that is not one of the
\* pipeline's has no inputs
CanStart(a) == AnyInput(a.inputs)

\* --combine without the segmentation and model arguments writes into the
\* directory of the combined file, which has to exist
CanWrite(a) == a.mode = "combine" => DirExists(dirname(a.combine))

\* the file system after the pipeline has run to its end with the parsed
\* arguments a and has written its outputs
Ran(f, a) ==
  IF a.mode = "combine"
  THEN [f EXCEPT ![dirname(a.combine)].files = @ \cup Combined(a.combine)]
  ELSE IF a.mode = "onlypdf"
  THEN [f EXCEPT ![dirname(a.inputs[1])] =
          [exists |-> TRUE,
           files |-> @.files \cup {FileName(a.inputs[1].base, "pdf")},
           xml |-> @.xml]]
  ELSE [f EXCEPT ![dirname(a.combine)] =
          [exists |-> TRUE,
           files |-> @.files \cup BatchOutputs(a.inputs, a.combine),
           xml |-> BatchMarkup(@.xml, a.inputs)]]

\* run_subscript_pipeline() with sys.argv = ["subscript", "--combine",
\* output_pdf_path] + child_paths: a normal return or SystemExit(0) assigns
\* the completed status and the paths; SystemExit with another code or any
\* exception assigns the error status.
mdt_pipeline ==
  \E j \in JobIds :
    /\ At(j, "merge", "pipeline")
    /\ LET a == Parsed(jobs[j].argv) IN
       \/ /\ CanStart(a)
          /\ CanWrite(a)
          /\ fs' = Ran(fs, a)
          /\ jobs' = [jobs EXCEPT ![j].pc = "finally", ![j].rc = 0, ![j].args = a,
                                  ![j].pend = MergedPend(jobs[j].path)]
       \/ /\ CanStart(a)
          /\ jobs' = [jobs EXCEPT ![j].pc = "finally", ![j].rc = 0, ![j].args = a,
                                  ![j].pend = MergedPend(jobs[j].path)]
          /\ UNCHANGED fs
       \/ /\ jobs' = [jobs EXCEPT ![j].pc = "finally", ![j].rc = 1, ![j].args = a,
                       ![j].pend = ErrorPend(ExcMessage("Subscript merge exited with code 1"))]
          /\ UNCHANGED fs
       \/ /\ CanStart(a)
          /\ jobs' = [jobs EXCEPT ![j].pc = "finally", ![j].rc = 2, ![j].args = a,
                       ![j].pend = ErrorPend(ExcMessage("Exception"))]
          /\ UNCHANGED fs
    /\ UNCHANGED <<docs, reqs, nextDir, hist, site>>

\* finally: sys.argv = original_argv; db.commit(); db.close()
mdt_finally ==
  \E j \in JobIds :
    /\ At(j, "merge", "finally")
    /\ LET d == jobs[j].doc IN
       IF Stale(d, jobs[j].snap, jobs[j].pend)
       THEN RaiseRestored(j) /\ UNCHANGED <<docs, hist>>
       ELSE /\ Commit(Flushed(docs, d, jobs[j].snap, jobs[j].pend))
            /\ FinishRestored(j)
    /\ UNCHANGED <<fs, reqs, nextDir, site>>

\* -------------------------------------------------------- rebuild_pdf_task
\* doc = db.query(Document).filter(Document.id == doc_id).first()
rpt_query ==
  \E j \in JobIds :
    /\ At(j, "rebuild", "queued")
    /\ LET d == jobs[j].doc IN
       IF docs[d].exists
       THEN jobs' = [jobs EXCEPT ![j].pc = "commit_updating", ![j].snap = docs[d]]
       ELSE Finish(j)
    /\ UNCHANGED <<docs, fs, reqs, nextDir, hist, site>>

\* doc.status = "updating_pdf"; db.commit()   (outside the try block);
\* try: original_argv = sys.argv; sys.argv = ["subscript", file_path, ...]
Updating == Pend({"status"}, "updating_pdf", NoErr, NoPath, NoPath)

rpt_commit_updating ==
  \E j \in JobIds :
    /\ At(j, "rebuild", "commit_updating")
    /\ LET d == jobs[j].doc IN
       IF Stale(d, jobs[j].snap, Updating)
       THEN Raise(j) /\ UNCHANGED <<docs, hist>>
       ELSE /\ Commit(Flushed(docs, d, jobs[j].snap, Updating))
            /\ jobs' = SetArgv([jobs EXCEPT ![j].pc = "pipeline", ![j].snap = NoDoc,
                                            ![j].original_argv = jobs[j].argv],
                               j, rebuild_argv(jobs[j].path))
    /\ UNCHANGED <<fs, reqs, nextDir, site>>

\* doc.status = "completed"; doc.last_modified = datetime.utcnow()
\* (the paths are left as they are)
RebuiltPend == Pend({"status", "modified"}, "completed", NoErr, NoPath, NoPath)

\* run_subscript_pipeline() with sys.argv = ["subscript", file_path,
\* "--onlypdf", "--output", output_dir]: a normal return or SystemExit(0)
\* assigns completed; another exit code or an exception assigns error.
rpt_pipeline ==
  \E j \in JobIds :
    /\ At(j, "rebuild", "pipeline")
    /\ LET a == Parsed(jobs[j].argv) IN
       \/ /\ CanStart(a)
          /\ CanWrite(a)
          /\ fs' = Ran(fs, a)
          /\ jobs' = [jobs EXCEPT ![j].pc = "finally", ![j].rc = 0, ![j].args = a,
                                  ![j].pend = RebuiltPend]
       \/ /\ CanStart(a)
          /\ jobs' = [jobs EXCEPT ![j].pc = "finally", ![j].rc = 0, ![j].args = a,
                                  ![j].pend = RebuiltPend]
          /\ UNCHANGED fs
       \/ /\ jobs' = [jobs EXCEPT ![j].pc = "finally", ![j].rc = 1, ![j].args = a,
                       ![j].pend = ErrorPend(ExcMessage("Subscript exited with code 1"))]
          /\ UNCHANGED fs
       \/ /\ CanStart(a)
          /\ jobs' = [jobs EXCEPT ![j].pc = "finally", ![j].rc = 2, ![j].args = a,
                       ![j].pend = ErrorPend(ExcMessage("Exception"))]
          /\ UNCHANGED fs
    /\ UNCHANGED <<docs, reqs, nextDir, hist, site>>

\* finally: sys.argv = original_argv; db.commit(); db.close()
rpt_finally ==
  \E j \in JobIds :
    /\ At(j, "rebuild", "finally")
    /\ LET d == jobs[j].doc IN
       IF Stale(d, jobs[j].snap, jobs[j].pend)
       THEN RaiseRestored(j) /\ UNCHANGED <<docs, hist>>
       ELSE /\ Commit(Flushed(docs, d, jobs[j].snap, jobs[j].pend))
            /\ FinishRestored(j)
    /\ UNCHANGED <<fs, reqs, nextDir, site>>

\* ------------------------------------------------------ process_batch_task
\* parent = db.query(...).first(); parent.status = "processing"
\* children = db.query(Document).filter(Document.parent_id == parent.id).all()
pbt_query ==
  \E j \in JobIds :
    /\ At(j, "batch", "queued")
    /\ LET p == jobs[j].doc IN
       IF docs[p].exists
       THEN jobs' = [jobs EXCEPT ![j].pc = "commit_processing",
                       ![j].snap = docs[p],
                       ![j].kids = ChildrenOf(p),
                       ![j].kclean = {d \in ChildrenOf(p) :
                                        docs[d].status = "processing"}]
       ELSE Finish(j)
    /\ UNCHANGED <<docs, fs, reqs, nextDir, hist, site>>

\* the uncommitted change of child k of a batch job
KidPend(tag, k, dir) ==
  IF tag = "processing" THEN Processing
  ELSE IF tag = "error" THEN ErrorPend(ExcMessage("Batch processing failed"))
  ELSE IF tag = "completed"
  THEN Pend({"status", "txt"}, "completed", NoErr,
            join(dir, FileName(splitext0(docs[k].fname), "txt")), NoPath)
  ELSE NoPend

\* the children a flush of a batch job writes
KidsWritten(j, tag) ==
  IF tag = "none" THEN {} ELSE jobs[j].kids \ jobs[j].kclean

\* one flush of the parent and the children of a batch job: it raises when a
\* row it has to write is gone, and else writes all of them in one commit
BatchStale(j, pend, tag) ==
  \/ Stale(jobs[j].doc, jobs[j].snap, pend)
  \/ \E k \in KidsWritten(j, tag) : ~docs[k].exists

BatchFlushed(j, pend, tag, dir) ==
  [d \in DocIds |->
     IF d = jobs[j].doc
     THEN Updated(docs[d], pend, Dirty(jobs[j].snap, pend))
     ELSE IF d \in KidsWritten(j, tag)
     THEN Updated(docs[d], KidPend(tag, d, dir), KidPend(tag, d, dir).cols)
     ELSE docs[d]]

\* for child in children: child.status = "processing"; db.commit()
\* (outside the try block)
pbt_commit_processing ==
  \E j \in JobIds :
    /\ At(j, "batch", "commit_processing")
    /\ IF BatchStale(j, Processing, "processing")
       THEN Raise(j) /\ UNCHANGED <<docs, hist>>
       ELSE /\ Commit(BatchFlushed(j, Processing, "processing", 0))
            /\ jobs' = [jobs EXCEPT ![j].pc = "load", ![j].snap = NoDoc,
                                    ![j].kclean = {}]
    /\ UNCHANGED <<fs, reqs, nextDir, site>>

\* except Exception as e: db.rollback(); parent.status = "error";
\* parent.error_message = str(e); every child: status error, "Batch
\* processing failed"
BatchFailed(job, text) ==
  [job EXCEPT !.pc = "finally", !.snap = NoDoc,
              !.pend = ErrorPend(ExcMessage(text)), !.kpend = "error"]

\* clean_email = sanitize_email(parent.owner.email): the first attribute read
\* after the commit reloads the parent row (ObjectDeletedError when it is
\* gone, before output_dir is assigned; original_argv = sys.argv is the
\* statement before it);
\* output_pdf_path = os.path.join(parent_dir, parent.filename)
pbt_load ==
  \E j \in JobIds :
    /\ At(j, "batch", "load")
    /\ LET p == jobs[j].doc IN
       IF docs[p].exists
       THEN jobs' = [jobs EXCEPT ![j].pc = "makedirs", ![j].snap = docs[p],
                                  ![j].path = merged_pdf_path(docs[p]),
                                  ![j].original_argv = jobs[j].argv]
       ELSE jobs' = [jobs EXCEPT ![j] = BatchFailed([@ EXCEPT !.original_argv = jobs[j].argv],
                                                     "ObjectDeletedError")]
    /\ UNCHANGED <<docs, fs, reqs, nextDir, hist, site>>

\* output_dir = parent_dir; os.makedirs(output_dir, exist_ok=True);
\* sys.argv = ["subscript", ...] + file_paths + ["--combine", ...]
pbt_makedirs ==
  \E j \in JobIds :
    /\ At(j, "batch", "makedirs")
    /\ fs' = makedirs(fs, dirname(jobs[j].path))
    /\ jobs' = SetArgv([jobs EXCEPT ![j].pc = "start"], j,
                       batch_argv(jobs[j].paths, jobs[j].path))
    /\ UNCHANGED <<docs, reqs, nextDir, hist, site>>

\* run_subscript_pipeline() starts: it parses sys.argv and expands its
\* inputs (subscript.py: glob.glob(pattern); no input files -> sys.exit(1)).
\* SystemExit is no Exception: only the finally clause runs.
pbt_start ==
  \E j \in JobIds :
    /\ At(j, "batch", "start")
    /\ LET a == Parsed(jobs[j].argv) IN
       IF CanStart(a)
       THEN jobs' = [jobs EXCEPT ![j].pc = "pipeline", ![j].args = a]
       ELSE jobs' = [jobs EXCEPT ![j].pc = "finally", ![j].rc = 1, ![j].args = a]
    /\ UNCHANGED <<docs, fs, reqs, nextDir, hist, site>>

\* The pipeline runs to its end: a normal return (outputs written, or every
\* page failed and nothing written), sys.exit(1) when the engines fail to
\* initialise, or an exception.
pbt_pipeline ==
  \E j \in JobIds :
    /\ At(j, "batch", "pipeline")
    /\ LET gone == ~docs[jobs[j].doc].exists IN
       \/ /\ CanWrite(jobs[j].args)
          /\ fs' = Ran(fs, jobs[j].args)
          /\ jobs' = [jobs EXCEPT ![j].pc = "after", ![j].rc = 0, ![j].gone = gone]
       \/ /\ jobs' = [jobs EXCEPT ![j].pc = "after", ![j].rc = 0, ![j].gone = gone]
          /\ UNCHANGED fs
       \/ /\ jobs' = [jobs EXCEPT ![j].pc = "finally", ![j].rc = 1, ![j].gone = gone]
          /\ UNCHANGED fs
       \/ /\ jobs' = [jobs EXCEPT ![j] = BatchFailed([@ EXCEPT !.rc = 2, !.gone = gone],
                                                     "Exception")]
          /\ UNCHANGED fs
    /\ UNCHANGED <<docs, reqs, nextDir, hist, site>>

RECURSIVE PostProcessed(_, _, _)
\* for child in children (in the order of their ids): the markup of each
\* child is post-processed in turn, up to the first child whose row is gone
PostProcessed(f, dir, kids) ==
  IF kids = {} THEN f
  ELSE LET k == CHOOSE x \in kids : \A y \in kids : x <= y IN
       IF ~docs[k].exists THEN f
       ELSE PostProcessed(Rewritten(f, dir, splitext0(docs[k].fname), docs[k].order),
                          dir, kids \ {k})

\* parent.status = "completed"; parent.output_pdf_path = output_pdf_path; ...
\* for child in children: child.status = "completed";
\*   base_name = os.path.splitext(child.filename)[0]   (reloads the child row:
\*   ObjectDeletedError when it is gone); child.output_txt_path = ...;
\*   the markup of the child is post-processed
pbt_after ==
  \E j \in JobIds :
    /\ At(j, "batch", "after")
    /\ IF \E k \in jobs[j].kids : ~docs[k].exists
       THEN jobs' = [jobs EXCEPT ![j] = BatchFailed(@, "ObjectDeletedError")]
       ELSE jobs' = [jobs EXCEPT ![j].pc = "finally",
                                  ![j].pend = BatchPend(jobs[j].path),
                                  ![j].kpend = "completed"]
    /\ fs' = PostProcessed(fs, dirname(jobs[j].path), jobs[j].kids)
    /\ UNCHANGED <<docs, reqs, nextDir, hist, site>>

\* finally: sys.argv = original_argv; db.commit()   (when a row is gone the
\* commit raises and the cleanup is not reached)
pbt_finally ==
  \E j \in JobIds :
    /\ At(j, "batch", "finally")
    /\ LET dir == dirname(jobs[j].path) IN
       IF BatchStale(j, jobs[j].pend, jobs[j].kpend)
       THEN RaiseRestored(j) /\ UNCHANGED <<docs, hist>>
       ELSE /\ Commit(BatchFlushed(j, jobs[j].pend, jobs[j].kpend, dir))
            /\ jobs' = Restored([jobs EXCEPT ![j].pc = "cleanup", ![j].pend = NoPend,
                                             ![j].kpend = "none"], j)
    /\ UNCHANGED <<fs, reqs, nextDir, site>>

\* Anti-Zombie Cleanup ('output_dir' in locals()); after it a SystemExit of
\* the pipeline propagates out of the task.
pbt_cleanup ==
  \E j \in JobIds :
    /\ At(j, "batch", "cleanup")
    /\ fs' = IF jobs[j].path = NoPath THEN fs
             ELSE zombie_cleanup(fs, jobs[j].doc, dirname(jobs[j].path))
    /\ jobs' = [jobs EXCEPT ![j] = [Closed(@) EXCEPT !.raised = (jobs[j].rc = 1)]]
    /\ UNCHANGED <<docs, reqs, nextDir, hist, site>>

\* ---------------------------------------------------------------- requests
\* A request handler that takes more than one step.  dir, isc are the
\* attributes its session has loaded; during records whether a job of the
\* document was running when the request arrived.
Request(kind, doc, dir, isc) ==
  [kind |-> kind, doc |-> doc, pc |-> "start", dir |-> dir, isc |-> isc,
   kids |-> {}, n |-> 0, next |-> 0, paths |-> <<>>, during |-> FALSE]

ReqIds == 1..Len(reqs)

ReqAt(r, kind, pc) == reqs[r].kind = kind /\ reqs[r].pc = pc

\* the delete and rebuild requests made so far
UserRequests == {r \in ReqIds : reqs[r].kind \in {"delete", "rebuild"}}

\* a job of document d has started and not ended
Running(d) ==
  \E j \in JobIds : jobs[j].doc = d /\ jobs[j].pc \notin {"queued", "done"}

\* --------------------------------------------------------- delete_document
\* doc = db.query(Document).filter(Document.id == doc_id, ...).first(); 404 when missing
delete_document_query ==
  \E d \in Present :
    /\ Cardinality(UserRequests) < MaxReqs
    /\ reqs' = Append(reqs, [Request("delete", d, docs[d].dir, docs[d].isc)
                               EXCEPT !.pc = "rmtree", !.during = Running(d)])
    /\ UNCHANGED <<docs, fs, jobs, nextDir, hist, site>>

\* if os.path.exists(target_dir): shutil.rmtree(target_dir, ignore_errors=True)
delete_document_rmtree ==
  \E r \in ReqIds :
    /\ ReqAt(r, "delete", "rmtree")
    /\ fs' = rmtree(fs, reqs[r].dir)
    /\ reqs' = [reqs EXCEPT ![r].pc = IF reqs[r].isc THEN "children" ELSE "commit"]
    /\ UNCHANGED <<docs, jobs, nextDir, hist, site>>

\* children = db.query(Document).filter(Document.parent_id == doc.id).all()
\* for child in children: db.delete(child)
delete_document_children ==
  \E r \in ReqIds :
    /\ ReqAt(r, "delete", "children")
    /\ reqs' = [reqs EXCEPT ![r].pc = "commit", ![r].kids = ChildrenOf(reqs[r].doc)]
    /\ UNCHANGED <<docs, fs, jobs, nextDir, hist, site>>

\* db.delete(doc); db.commit().  A DELETE that matches no row only warns.
\* The rows of Document.children that are not themselves deleted get
\* parent_id NULL when their parent row is deleted (relationship without
\* delete cascade).
deleted_rows(r) == reqs[r].kids \cup {reqs[r].doc}

delete_document_commit ==
  \E r \in ReqIds :
    /\ ReqAt(r, "delete", "commit")
    /\ Commit([d \in DocIds |->
                 IF d \in deleted_rows(r) THEN NoDoc
                 ELSE IF docs[d].exists /\ docs[d].parent = reqs[r].doc
                 THEN [docs[d] EXCEPT !.parent = 0]
                 ELSE docs[d]])
    /\ reqs' = [reqs EXCEPT ![r].pc = "done"]
    /\ UNCHANGED <<fs, jobs, nextDir, site>>

\* ------------------------------------------------------------- rebuild_pdf
\* file_path = os.path.join(doc_dir, clean_filename); 404 when the row or
\* the file is missing; doc.status = "updating_pdf"; db.commit();
\* rebuild_pdf_task.delay(doc.id, file_path)
rebuild_pdf ==
  \E d \in Present :
    LET file_path == join(docs[d].dir, docs[d].fname) IN
    /\ Cardinality(UserRequests) < MaxReqs
    /\ FileExists(file_path)
    /\ Commit([docs EXCEPT ![d].status = "updating_pdf"])
    /\ jobs' = delay(jobs, Job("rebuild", d, file_path, <<>>))
    /\ reqs' = Append(reqs, [Request("rebuild", d, docs[d].dir, docs[d].isc)
                               EXCEPT !.pc = "done", !.during = Running(d)])
    /\ UNCHANGED <<fs, nextDir, site>>

\* --------------------------------------------------------- upload_document
\* The directory gets a fresh name (secrets.token_hex), the file is stored,
\* the row is created with status queued and the task is dispatched.
upload_document ==
    LET id == NewId
        fname == FileName(1, "jpg")
        dir == nextDir
    IN /\ id \in DocIds
       /\ dir \in FreshDirs
       /\ fs' = [fs EXCEPT ![dir] = [exists |-> TRUE, files |-> {fname},
                                      xml |-> NoXml]]
       /\ Commit([docs EXCEPT ![id] = Document(fname, "queued", FALSE, 0, 0, dir)])
       /\ jobs' = delay(jobs, Job("single", id, join(dir, fname), <<>>))
       /\ nextDir' = nextDir + 1
       /\ UNCHANGED <<reqs, site>>

\* ------------------------------------------------ upload_batch (grouped)
\* clean_group_name: the group name with ".pdf"; its base is kept apart from
\* the bases of the uploaded files
GroupName == FileName(0, "pdf")

\* parent_doc = Document(filename=clean_group_name, status="processing",
\*   is_container=True, directory_name=group_dir_name); db.commit();
\* os.makedirs(upload_dir, exist_ok=True)
upload_batch_parent ==
  \E n \in 1..MaxPages :
    LET id == NewId
        dir == nextDir
    IN /\ id \in DocIds
       /\ dir \in FreshDirs
       /\ Commit([docs EXCEPT ![id] =
                    Document(GroupName, "processing", TRUE, 0, 0, dir)])
       /\ fs' = makedirs(fs, dir)
       /\ reqs' = Append(reqs, [Request("upload_batch", id, dir, TRUE)
                                  EXCEPT !.pc = "file", !.n = n, !.next = 1])
       /\ nextDir' = nextDir + 1
       /\ UNCHANGED <<jobs, site>>

\* the handler ends with an unhandled exception (HTTP 500)
Abort(r) == reqs' = [reqs EXCEPT ![r].pc = "failed"]

\* for i, file in enumerate(files): open(file_path, "wb") ...;
\*   parent_id=parent_doc.id   (for the first file parent_doc is as
\*   db.refresh(parent_doc) loaded it; after each commit it is expired and
\*   parent_doc.id reloads the parent row)
upload_batch_file ==
  \E r \in ReqIds :
    /\ ReqAt(r, "upload_batch", "file")
    /\ LET fname == FileName(reqs[r].next, "jpg") IN
       IF DirExists(reqs[r].dir) /\ (reqs[r].next = 1 \/ docs[reqs[r].doc].exists)
       THEN /\ fs' = [fs EXCEPT ![reqs[r].dir].files = @ \cup {fname}]
            /\ reqs' = [reqs EXCEPT ![r].pc = "child"]
       ELSE /\ Abort(r)
            /\ fs' = IF DirExists(reqs[r].dir)
                     THEN [fs EXCEPT ![reqs[r].dir].files = @ \cup {fname}]
                     ELSE fs
    /\ UNCHANGED <<docs, jobs, nextDir, hist, site>>

\* the column default of page_order
page_order_default(index) == 0

\* page_order=i + 1, for i, file in enumerate(files)
page_order(index) == index + 1

\* doc = Document(filename=clean_filename, status="queued",
\*   parent_id=parent_doc.id, page_order=i + 1, directory_name=dir_name);
\* db.add(doc); db.commit()
upload_batch_child ==
  \E r \in ReqIds :
    /\ ReqAt(r, "upload_batch", "child")
    /\ LET id == NewId
           i == reqs[r].next
           fname == FileName(i, "jpg")
       IN /\ id \in DocIds
          /\ Commit([docs EXCEPT ![id] =
                       Document(fname, "queued", FALSE, reqs[r].doc,
                                page_order(i - 1), reqs[r].dir)])
          /\ reqs' = [reqs EXCEPT ![r].pc = IF i = reqs[r].n THEN "final" ELSE "file",
                                  ![r].next = i + 1,
                                  ![r].paths = Append(@, join(reqs[r].dir, fname))]
    /\ UNCHANGED <<fs, jobs, nextDir, site>>

\* open(lst_path_abs, "w"); parent_doc.status = "queued"; db.commit();
\* process_batch_task.delay(parent_doc.id, file_path_list, model, options)
upload_batch_final ==
  \E r \in ReqIds :
    /\ ReqAt(r, "upload_batch", "final")
    /\ LET p == reqs[r].doc IN
       IF DirExists(reqs[r].dir) /\ docs[p].exists
       THEN /\ Commit([docs EXCEPT ![p].status = "queued"])
            /\ jobs' = delay(jobs, Job("batch", p, NoPath, reqs[r].paths))
            /\ reqs' = [reqs EXCEPT ![r].pc = "done"]
       ELSE /\ Abort(r)
            /\ UNCHANGED <<docs, hist, jobs>>
    /\ UNCHANGED <<fs, nextDir, site>>

\* ------------------------------------------- the legacy command's file order
\* A file name is a sequence of characters; "sup2" stands for the character
\* U+00B2, one of those for which str.isdigit() is true and int() raises.
AsciiDigits == <<"0", "1", "2">>

IsAscii(c) == \E i \in 1..Len(AsciiDigits) : AsciiDigits[i] = c

\* the characters in the order of their code points
CodePoints == <<".", "0", "1", "2", "A", "_", "a", "sup2">>

ord(c) == CHOOSE i \in 1..Len(CodePoints) : CodePoints[i] = c

\* str.lower()
lower(text) == [i \in 1..Len(text) |-> IF text[i] = "A" THEN "a" ELSE text[i]]

\* str.isdigit(): not empty and every character is a digit character
isdigit(text) ==
  text # <<>> /\ \A i \in 1..Len(text) : IsAscii(text[i]) \/ text[i] = "sup2"

RECURSIVE int(_)
\* int(text) of a text of decimal digits
int(text) ==
  IF text = <<>> THEN 0
  ELSE 10 * int(SubSeq(text, 1, Len(text) - 1))
       + (CHOOSE i \in 1..Len(AsciiDigits) : AsciiDigits[i] = text[Len(text)]) - 1

RECURSIVE re_split(_)
\* re.split('([0-9]+)', s): the texts between the runs of [0-9], and the
\* runs themselves, in turn; the first and the last part are texts
re_split(s) ==
  IF \A i \in 1..Len(s) : ~IsAscii(s[i]) THEN <<s>>
  ELSE LET first == CHOOSE i \in 1..Len(s) :
                      IsAscii(s[i]) /\ \A k \in 1..(i - 1) : ~IsAscii(s[k])
           last == CHOOSE i \in first..Len(s) :
                     /\ \A k \in first..i : IsAscii(s[k])
                     /\ (i < Len(s) => ~IsAscii(s[i + 1]))
       IN <<SubSeq(s, 1, first - 1), SubSeq(s, first, last)>>
          \o re_split(SubSeq(s, last + 1, Len(s)))

\* [int(text) if text.isdigit() else text.lower() for text in re.split(...)]
\* (type "ValueError": int() raises for the part)
natural_sort_key(s) ==
  LET parts == re_split(s) IN
  [i \in 1..Len(parts) |->
     IF isdigit(parts[i])
     THEN IF \A k \in 1..Len(parts[i]) : IsAscii(parts[i][k])
          THEN [type |-> "int", val |-> int(parts[i])]
          ELSE [type |-> "ValueError", val |-> 0]
     ELSE [type |-> "str", val |-> lower(parts[i])]]

KeyRaises(key) == \E i \in 1..Len(key) : key[i].type = "ValueError"

\* the first index at which two keys differ (0: one is a prefix of the other)
FirstDiff(k1, k2) ==
  LET n == IF Len(k1) < Len(k2) THEN Len(k1) ELSE Len(k2)
      D == {i \in 1..n : k1[i] # k2[i]}
  IN IF D = {} THEN 0 ELSE CHOOSE i \in D : \A k \in D : i <= k

\* str < str, by code points
StrLess(a, b) ==
  LET n == IF Len(a) < Len(b) THEN Len(a) ELSE Len(b)
      D == {i \in 1..n : a[i] # b[i]}
  IN IF D = {} THEN Len(a) < Len(b)
     ELSE LET i == CHOOSE x \in D : \A k \in D : x <= k
          IN ord(a[i]) < ord(b[i])

\* '<' not supported between instances of 'int' and 'str'
CompareRaises(k1, k2) ==
  LET i == FirstDiff(k1, k2) IN i # 0 /\ k1[i].type # k2[i].type

\* list < list
KeyLess(k1, k2) ==
  LET i == FirstDiff(k1, k2) IN
  IF i = 0 THEN Len(k1) < Len(k2)
  ELSE IF k1[i].type = "int" THEN k1[i].val < k2[i].val
  ELSE StrLess(k1[i].val, k2[i].val)

RECURSIVE sorted(_)
\* list.sort(key=natural_sort_key) where no key and no comparison raises:
\* a stable sort (each name goes behind the names that are not greater)
sorted(names) ==
  IF names = <<>> THEN <<>>
  ELSE LET rest == sorted(SubSeq(names, 1, Len(names) - 1))
           x == names[Len(names)]
           before == {i \in 1..Len(rest) :
                        KeyLess(natural_sort_key(x), natural_sort_key(rest[i]))}
           at == IF before = {} THEN Len(rest) + 1
                 ELSE CHOOSE i \in before : \A k \in before : i <= k
       IN SubSeq(rest, 1, at - 1) \o <<x>> \o SubSeq(rest, at, Len(rest))

SortRaises(names) ==
  \/ \E i \in 1..Len(names) : KeyRaises(natural_sort_key(names[i]))
  \/ \E i, k \in 1..Len(names) :
       CompareRaises(natural_sort_key(names[i]), natural_sort_key(names[k]))

\* image_files.sort(key=natural_sort_key); an exception ends the command
sort_image_files ==
  \E j \in JobIds :
    /\ At(j, "legacy", "queued")
    /\ IF SortRaises(jobs[j].paths)
       THEN Raise(j)
       ELSE jobs' = [jobs EXCEPT ![j].pc = "sorted", ![j].paths = sorted(@)]
    /\ UNCHANGED <<docs, fs, reqs, nextDir, hist, site>>

\* os.makedirs(args.output_dir, exist_ok=True) and the pages in their order
process_image_files ==
  \E j \in JobIds :
    /\ At(j, "legacy", "sorted")
    /\ Finish(j)
    /\ UNCHANGED <<docs, fs, reqs, nextDir, hist, site>>

\* ----------------------------------------------------------- specifications
\* ----------------------------------------------- the pipeline's command
\* One argument of a command: a word, or a path.
Word(w) == [word |-> w, path |-> NoPath]

PathArg(p) == [word |-> "", path |-> p]

DirArg(dir) == [word |-> "", path |-> [NoPath EXCEPT !.dir = dir]]

\* options as a task receives it: None, a text json.loads rejects, or an
\* object; seg "" stands for no 'segmentation_model' key, prompt "" for no
\* prompt, temp "" for no temperature
NoOptions ==
  [given |-> FALSE, valid |-> FALSE, seg |-> "", prompt |-> "", temp |-> "",
   binarize |-> FALSE]

BadOptions == [NoOptions EXCEPT !.given = TRUE]

OptionSets ==
  {NoOptions, BadOptions} \cup
  {[given |-> TRUE, valid |-> TRUE, seg |-> s, prompt |-> p, temp |-> t,
    binarize |-> b] :
     s \in {"", "historical-manuscript", "printed-text"},
     p \in {"", "prompt"}, t \in {"", "0"}, b \in BOOLEAN}

Models == {"gemini-pro-3", "other-model"}

\* segmentation_model = "historical-manuscript"  # Default
\* if 'segmentation_model' in opts: segmentation_model = opts['segmentation_model']
segmentation_model(o) ==
  IF o.given /\ o.valid /\ o.seg # "" THEN o.seg ELSE "historical-manuscript"

\* the arguments added for the prompt, the temperature and the
\* preprocessing options (none when options is missing or not parsed)
overrides(o) ==
  IF ~(o.given /\ o.valid) THEN <<>>
  ELSE (IF o.prompt # "" THEN <<Word("--prompt"), Word(o.prompt)>> ELSE <<>>)
       \o (IF o.temp # "" THEN <<Word("--temp"), Word(o.temp)>> ELSE <<>>)
       \o (IF o.binarize THEN <<Word("--binarize")>> ELSE <<>>)

\* cmd = ["subscript", "--config", "/app/config/config.yml",
\*        segmentation_model, model, file_path, "--output", output_dir]
cmd(model, o, file_path) ==
  <<Word("subscript"), Word("--config"), Word("/app/config/config.yml"),
    Word(segmentation_model(o)), Word(model), PathArg(file_path),
    Word("--output"), DirArg(dirname(file_path))>> \o overrides(o)

\* sys.argv = ["subscript", "--config", "/app/config/config.yml",
\*             "historical-manuscript", model] + file_paths +
\*            ["--combine", output_pdf_path, "--output", output_dir]
batch_cmd(model, o, file_paths, pdf) ==
  <<Word("subscript"), Word("--config"), Word("/app/config/config.yml"),
    Word("historical-manuscript"), Word(model)>>
  \o [i \in 1..Len(file_paths) |-> PathArg(file_paths[i])]
  \o <<Word("--combine"), PathArg(pdf),
       Word("--output"), DirArg(dirname(pdf))>>
  \o overrides(o)

\* process_document_task(doc_id, file_path, model, options) up to the
\* command it hands to subprocess.Popen
pdt_cmd ==
  \E j \in JobIds :
    /\ At(j, "single", "queued")
    /\ jobs' = [jobs EXCEPT ![j].pc = "done",
                  ![j].cmd = cmd(jobs[j].model, jobs[j].options, jobs[j].path)]
    /\ UNCHANGED <<docs, fs, reqs, nextDir, hist, site>>

\* process_batch_task(parent_id, file_paths, model, options) up to the
\* sys.argv it runs the pipeline with
pbt_cmd ==
  \E j \in JobIds :
    /\ At(j, "batch", "queued")
    /\ jobs' = [jobs EXCEPT ![j].pc = "done",
                  ![j].cmd = batch_cmd(jobs[j].model, jobs[j].options, jobs[j].paths,
                                       merged_pdf_path(docs[jobs[j].doc]))]
    /\ UNCHANGED <<docs, fs, reqs, nextDir, hist, site>>

\* --------------------------------------------------------- the rate limit
\* A counter of Redis: count 0 stands for no key; a key is gone once its
\* time to live has run out.
NoCounter == [count |-> 0, expire_at |-> 0]

Live(key) == redis[key].count > 0 /\ now < redis[key].expire_at

\* a fixed window: the expiry is set when the key is created only
incr_expire_once(key, period) ==
  [redis EXCEPT ![key] =
     IF Live(key) THEN [@ EXCEPT !.count = @ + 1]
     ELSE [count |-> 1, expire_at |-> now + period]]

\* pipe.incr(key); pipe.expire(key, period); result = pipe.execute()
incr_expire(key, period) ==
  [redis EXCEPT ![key] =
     [count |-> (IF Live(key) THEN @.count ELSE 0) + 1,
      expire_at |-> now + period]]

\* one call of check_rate_limit as it has ended: executed tells that Redis
\* has run the pipeline, answered that the client got its result
Call(key, executed, answered, status) ==
  [kind |-> "rate", key |-> key, at |-> now, executed |-> executed,
   answered |-> answered, status |-> status]

\* check_rate_limit(key, limit, period): without a client, or when the
\* pipeline raises RedisError (before or after Redis has run it), the call
\* passes; else count > limit raises HTTP 429
check_rate_limit(key, limit, period) ==
  /\ Len(reqs) < MaxCalls
  /\ \/ /\ reqs' = Append(reqs, Call(key, FALSE, FALSE, 200))
        /\ UNCHANGED redis
     \/ /\ redis' = incr_expire(key, period)
        /\ \/ reqs' = Append(reqs, Call(key, TRUE, TRUE,
                                         IF redis'[key].count > limit THEN 429 ELSE 200))
           \/ reqs' = Append(reqs, Call(key, TRUE, FALSE, 200))
  /\ UNCHANGED <<docs, fs, jobs, nextDir, hist, users, invitations, preferences, now>>

\* check_rate_limit(f"login:{client_host}", 10, 60)  # 10 per minute
login_for_access_token == check_rate_limit("login", MaxLimit, MaxPeriod)

\* a second passes
tick ==
  /\ now < MaxTime
  /\ now' = now + 1
  /\ UNCHANGED <<registry, users, invitations, preferences, redis>>

\* ------------------------------------------------------------------ users
UserIds == 1..MaxUsers

\* email addresses
Emails == 1..MaxUsers

\* A row of the users table; token is the invitation token of the register
\* request that created it (0: none), kept for the properties only.
NoUser ==
  [exists |-> FALSE, email |-> 0, is_admin |-> FALSE, is_locked |-> FALSE,
   token |-> 0]

\* User(email=..., is_admin=...): is_locked takes its default
User(email, is_admin, token) ==
  [exists |-> TRUE, email |-> email, is_admin |-> is_admin,
   is_locked |-> FALSE, token |-> token]

AllUsers == {u \in UserIds : users[u].exists}

\* db.query(User).filter(User.email == email).first()
ByEmail(email) == {u \in AllUsers : users[u].email = email}

\* users.id is an INTEGER PRIMARY KEY of SQLite, as documents.id is
NewUserId == SetMax(AllUsers) + 1

\* A row of user_preferences: the preferences the user has stored, a
\* function from keys to values
NoPreference == [exists |-> FALSE, preferences |-> <<>>]

\* ---------------------------------------------------------------- register
Invites == 1..MaxInvites

NoInvite == [exists |-> FALSE, is_used |-> FALSE]

Registers == {r \in ReqIds : reqs[r].kind = "register"}

\* the handler ends with this HTTP status
Respond(r, status) == reqs' = [reqs EXCEPT ![r].pc = "done", ![r].status = status]

\* the registration mode of system_settings in these scenarios
registration_mode == "invite"

\* invite_obj = db.query(Invitation).filter(Invitation.token == token,
\*                                          Invitation.is_used == False).first()
Unused(token) ==
  token \in Invites /\ invitations[token].exists /\ ~invitations[token].is_used

\* register(user, token) up to the invitation: in invite mode a request
\* without a token, or with one that is unknown or used, gets HTTP 403.
\* (check_rate_limit allows 5 calls per minute, more than MaxRegs.)
register_invite ==
  \E email \in Emails : \E token \in 0..(MaxInvites + 1) : \E strong \in BOOLEAN :
    /\ Cardinality(Registers) < MaxRegs
    /\ LET ok == registration_mode = "invite" => Unused(token) IN
       reqs' = Append(reqs, [kind |-> "register", email |-> email, token |-> token,
                             strong |-> strong, is_admin |-> FALSE,
                             pc |-> IF ok THEN "user" ELSE "done",
                             status |-> IF ok THEN 0 ELSE 403])
    /\ UNCHANGED <<docs, fs, jobs, nextDir, hist, site>>

\* db_user = db.query(User).filter(User.email == user.email).first() -> 400;
\* validate_strong_password -> 400; is_admin = db.query(User).count() == 0
register_user ==
  \E r \in ReqIds :
    /\ ReqAt(r, "register", "user")
    /\ IF ByEmail(reqs[r].email) # {} \/ ~reqs[r].strong
       THEN Respond(r, 400)
       ELSE reqs' = [reqs EXCEPT ![r].pc = "commit", ![r].is_admin = (AllUsers = {})]
    /\ UNCHANGED <<docs, fs, jobs, nextDir, hist, site>>

\* db.add(db_user); invite_obj.is_used = True; db.add(invite_obj);
\* db.commit(): the INSERT fails on the unique email (HTTP 500, nothing is
\* written); the UPDATE of the invitation writes is_used whatever its value
register_commit ==
  \E r \in ReqIds :
    /\ ReqAt(r, "register", "commit")
    /\ IF ByEmail(reqs[r].email) # {}
       THEN Respond(r, 500) /\ UNCHANGED <<users, invitations>>
       ELSE /\ NewUserId \in UserIds
            /\ users' = [users EXCEPT ![NewUserId] =
                           User(reqs[r].email, reqs[r].is_admin, reqs[r].token)]
            /\ invitations' =
                 IF reqs[r].token \in Invites
                 THEN [invitations EXCEPT ![reqs[r].token].is_used = TRUE]
                 ELSE invitations
            /\ Respond(r, 200)
    /\ UNCHANGED <<docs, fs, jobs, nextDir, hist, preferences, redis, now>>

\* ------------------------------------------------------- admin endpoints
Ops == {r \in ReqIds : reqs[r].kind \in {"role", "update", "delete_user"}}

\* current_user = Depends(get_current_user): the user whose email is the
\* subject of the bearer token (HTTP 401 when there is none); is_locked is
\* not looked at.  The request keeps the row as its session has loaded it.
\* A token is held for every address of the initial state; is_admin,
\* is_locked and email are the body of the request ("none": not given).
get_current_user ==
  /\ Cardinality(Ops) < MaxOps
  /\ \E kind \in {"role", "update", "delete_user"} :
     \E subject \in Emails : \E user_id \in UserIds :
     \E is_admin \in IF kind = "role" THEN BOOLEAN ELSE {TRUE} :
     \E is_locked \in IF kind = "update" THEN {"none", "true", "false"} ELSE {"none"} :
     \E email \in IF kind = "update" THEN {0} \cup Emails ELSE {0} :
    /\ LET found == ByEmail(subject)
           me == IF found = {} THEN 0 ELSE CHOOSE u \in found : TRUE
       IN reqs' = Append(reqs,
            [kind |-> kind, user_id |-> user_id, is_admin |-> is_admin,
             is_locked |-> is_locked, email |-> email, id |-> me,
             current_user |-> IF me = 0 THEN NoUser ELSE users[me],
             pc |-> IF me = 0 THEN "done" ELSE "handler",
             status |-> IF me = 0 THEN 401 ELSE 0])
    /\ UNCHANGED <<docs, fs, jobs, nextDir, hist, site>>

\* user = db.query(User).filter(User.id == user_id).first(): the row, or for
\* the caller's own id the object the session already holds
Loaded(r) ==
  IF reqs[r].user_id = reqs[r].id THEN reqs[r].current_user
  ELSE users[reqs[r].user_id]

\* db.commit() after assignments to the loaded row: the values that differ
\* from the loaded ones are written
Written(row, loaded, new) ==
  [row EXCEPT !.is_admin = IF new.is_admin # loaded.is_admin THEN new.is_admin ELSE @,
              !.is_locked = IF new.is_locked # loaded.is_locked THEN new.is_locked ELSE @,
              !.email = IF new.email # loaded.email THEN new.email ELSE @]

\* update_user_role: 403 for a caller that is not an administrator, 404
\* for a missing user, 400 for a self-demotion; user.is_admin =
\* role_update.is_admin; db.commit()
update_user_role ==
  \E r \in ReqIds :
    /\ ReqAt(r, "role", "handler")
    /\ LET u == reqs[r].user_id IN
       IF ~reqs[r].current_user.is_admin
       THEN Respond(r, 403) /\ UNCHANGED users
       ELSE IF ~users[u].exists
       THEN Respond(r, 404) /\ UNCHANGED users
       ELSE IF u = reqs[r].id /\ ~reqs[r].is_admin
       THEN Respond(r, 400) /\ UNCHANGED users
       ELSE /\ users' = [users EXCEPT ![u] =
                           Written(@, Loaded(r),
                                   [Loaded(r) EXCEPT !.is_admin = reqs[r].is_admin])]
            /\ Respond(r, 200)
    /\ UNCHANGED <<docs, fs, jobs, nextDir, hist, invitations, preferences, redis, now>>

\* update_user: 403, 404, 400 when the new email is taken, 400 for locking
\* oneself (nothing is written then); user.email = ...; user.is_locked =
\* ...; db.commit().  The name and the password are left out.
update_user ==
  \E r \in ReqIds :
    /\ ReqAt(r, "update", "handler")
    /\ LET u == reqs[r].user_id
           new == [Loaded(r) EXCEPT
                     !.email = IF reqs[r].email # 0 THEN reqs[r].email ELSE @,
                     !.is_locked = IF reqs[r].is_locked = "none" THEN @
                                   ELSE reqs[r].is_locked = "true"]
       IN
       IF ~reqs[r].current_user.is_admin
       THEN Respond(r, 403) /\ UNCHANGED users
       ELSE IF ~users[u].exists
       THEN Respond(r, 404) /\ UNCHANGED users
       ELSE IF /\ reqs[r].email # 0 /\ reqs[r].email # Loaded(r).email
               /\ ByEmail(reqs[r].email) # {}
       THEN Respond(r, 400) /\ UNCHANGED users
       ELSE IF u = reqs[r].id /\ reqs[r].is_locked = "true"
       THEN Respond(r, 400) /\ UNCHANGED users
       ELSE /\ users' = [users EXCEPT ![u] = Written(@, Loaded(r), new)]
            /\ Respond(r, 200)
    /\ UNCHANGED <<docs, fs, jobs, nextDir, hist, invitations, preferences, redis, now>>

\* delete_user: 403, 400 for deleting oneself, 404; db.delete(user);
\* db.commit() deletes the row and the user's preference row; the second
\* db.delete(user) of the handler then raises (HTTP 500)
delete_user ==
  \E r \in ReqIds :
    /\ ReqAt(r, "delete_user", "handler")
    /\ LET u == reqs[r].user_id IN
       IF ~reqs[r].current_user.is_admin
       THEN Respond(r, 403) /\ UNCHANGED <<users, preferences>>
       ELSE IF u = reqs[r].id
       THEN Respond(r, 400) /\ UNCHANGED <<users, preferences>>
       ELSE IF ~users[u].exists
       THEN Respond(r, 404) /\ UNCHANGED <<users, preferences>>
       ELSE /\ users' = [users EXCEPT ![u] = NoUser]
            /\ preferences' = [preferences EXCEPT ![u] = NoPreference]
            /\ Respond(r, 500)
    /\ UNCHANGED <<docs, fs, jobs, nextDir, hist, invitations, redis, now>>

\* ------------------------------------------------------------ preferences
\* Preferences are a dictionary: a function from the keys to a value, or to
\* "unset" for a key the dictionary does not hold.  subscript_model is a key
\* with a system default, tour_seen one without.
PrefKeys == {"subscript_model", "tour_seen"}

PrefValues == {"a", "b"}

Dicts == [PrefKeys -> PrefValues \cup {"unset"}]

EmptyDict == [k \in PrefKeys |-> "unset"]

\* default_state, from config.yml
default_state == [EmptyDict EXCEPT !["subscript_model"] = "a"]

\* {**base, **over}
merge(base, over) ==
  [k \in PrefKeys |-> IF over[k] # "unset" THEN over[k] ELSE base[k]]

\* user_pref.preferences if user_pref else {}
Stored(u) ==
  IF preferences[u].exists THEN preferences[u].preferences ELSE EmptyDict

PrefReqs == {r \in ReqIds : reqs[r].kind \in {"get", "update_prefs", "reset"}}

\* get_user_preferences: merged_prefs = {**default_state, **user_overrides}
get_user_preferences ==
  \E u \in AllUsers :
    /\ Cardinality(PrefReqs) < MaxPrefs
    /\ reqs' = Append(reqs, [kind |-> "get", user |-> u, pc |-> "done", status |-> 200,
                             update |-> EmptyDict, loaded |-> preferences[u],
                             result |-> merge(default_state, Stored(u))])
    /\ UNCHANGED <<docs, fs, jobs, nextDir, hist, site>>

\* update_user_preferences up to its query:
\* user_pref = db.query(UserPreference).filter(UserPreference.user_id == current_user.id).first()
update_user_preferences_query ==
  \E u \in AllUsers : \E update \in Dicts \ {EmptyDict} :
    /\ Cardinality(PrefReqs) < MaxPrefs
    /\ reqs' = Append(reqs, [kind |-> "update_prefs", user |-> u, pc |-> "commit",
                             status |-> 0, update |-> update,
                             loaded |-> preferences[u], result |-> EmptyDict])
    /\ UNCHANGED <<docs, fs, jobs, nextDir, hist, site>>

\* updated_prefs = {**current_prefs, **pref_update.preferences};
\* user_pref.preferences = updated_prefs; flag_modified(...); db.commit():
\* a new row is inserted (HTTP 500 when the user has got a row meanwhile),
\* a loaded row is updated as a whole (HTTP 500 when it is gone)
update_user_preferences ==
  \E r \in ReqIds :
    /\ ReqAt(r, "update_prefs", "commit")
    /\ LET u == reqs[r].user
           current_prefs == IF reqs[r].loaded.exists THEN reqs[r].loaded.preferences
                            ELSE EmptyDict
           updated_prefs == merge(current_prefs, reqs[r].update)
       IN IF reqs[r].loaded.exists # preferences[u].exists
          THEN Respond(r, 500) /\ UNCHANGED preferences
          ELSE /\ preferences' = [preferences EXCEPT ![u] =
                                    [exists |-> TRUE, preferences |-> updated_prefs]]
               /\ reqs' = [reqs EXCEPT ![r].pc = "done", ![r].status = 200,
                                       ![r].result = updated_prefs]
    /\ UNCHANGED <<docs, fs, jobs, nextDir, hist, users, invitations, redis, now>>

\* reset_user_preferences: if user_pref: db.delete(user_pref); db.commit()
reset_user_preferences ==
  \E u \in AllUsers :
    /\ Cardinality(PrefReqs) < MaxPrefs
    /\ preferences' = [preferences EXCEPT ![u] = NoPreference]
    /\ reqs' = Append(reqs, [kind |-> "reset", user |-> u, pc |-> "done", status |-> 200,
                             update |-> EmptyDict, loaded |-> preferences[u],
                             result |-> EmptyDict])
    /\ UNCHANGED <<docs, fs, jobs, nextDir, hist, users, invitations, redis, now>>

vars == <<docs, fs, jobs, reqs, nextDir, hist,
          users, invitations, preferences, redis, now>>

\* no user, invitation, stored preference or counter
SiteIdle ==
  /\ users = <<>>
  /\ invitations = <<>>
  /\ preferences = <<>>
  /\ redis = <<>>
  /\ now = 0

InitEmpty ==
  /\ docs = [d \in DocIds |-> NoDoc]
  /\ fs = [d \in Dirs |-> NoDir]
  /\ jobs = <<>>
  /\ reqs = <<>>
  /\ nextDir = 1
  /\ hist = [d \in DocIds |-> <<>>]
  /\ SiteIdle

NextSingle ==
  \/ upload_document
  \/ pdt_query
  \/ pdt_commit_processing
  \/ pdt_makedirs
  \/ pdt_load
  \/ pdt_popen
  \/ pdt_popen_oserror
  \/ pdt_pipeline
  \/ pdt_after
  \/ pdt_commit_completed
  \/ pdt_parent
  \/ pdt_finally
  \/ pdt_cleanup
  \/ delete_document_query
  \/ delete_document_rmtree
  \/ delete_document_commit

\* single uploads, their process-single jobs and deletes
SpecSingle == InitEmpty /\ [][NextSingle]_vars

NextFault ==
  \/ upload_document
  \/ pdt_query
  \/ pdt_commit_processing
  \/ pdt_makedirs
  \/ pdt_load
  \/ pdt_popen
  \/ pdt_popen_oserror
  \/ pdt_pipeline
  \/ pdt_after
  \/ pdt_commit_completed
  \/ pdt_commit_failed
  \/ pdt_parent
  \/ pdt_finally
  \/ pdt_cleanup
  \/ delete_document_query
  \/ delete_document_rmtree
  \/ delete_document_commit

\* single uploads, their process-single jobs with a commit that can fail,
\* and deletes
SpecFault == InitEmpty /\ [][NextFault]_vars

\* A container (id 1) whose n pages (ids 2..n+1, page_order 1..n) are stored
\* in the container's directory, all queued, each with a process-single job.
InitChildren ==
  \E n \in 1..MaxPages :
    /\ docs = [d \in DocIds |->
                 IF d = 1 THEN Document(GroupName, "queued", TRUE, 0, 0, 1)
                 ELSE IF d <= n + 1
                 THEN Document(FileName(d - 1, "jpg"), "queued", FALSE, 1, d - 1, 1)
                 ELSE NoDoc]
    /\ fs = [d \in Dirs |->
               IF d = 1
               THEN [exists |-> TRUE, files |-> {FileName(i, "jpg") : i \in 1..n},
                     xml |-> NoXml]
               ELSE NoDir]
    /\ jobs = [i \in 1..n |->
                 Job("single", i + 1, join(1, FileName(i, "jpg")), <<>>)]
    /\ reqs = <<>>
    /\ nextDir = 2
    /\ hist = [d \in DocIds |-> IF d <= n + 1 THEN <<"queued">> ELSE <<>>]
    /\ SiteIdle

NextChildren ==
  \/ pdt_query
  \/ pdt_commit_processing
  \/ pdt_makedirs
  \/ pdt_load
  \/ pdt_popen
  \/ pdt_pipeline
  \/ pdt_after
  \/ pdt_commit_completed
  \/ pdt_parent
  \/ pdt_count_total
  \/ pdt_count_completed
  \/ pdt_finally
  \/ pdt_cleanup
  \/ mdt_query
  \/ mdt_commit_merging
  \/ mdt_children
  \/ mdt_pipeline
  \/ mdt_finally

\* the pages of one container processed by process-single jobs, and the
\* merge jobs they trigger
SpecChildren == InitChildren /\ [][NextChildren]_vars

\* the same where the workers go on: a task in the queue is taken by a
\* worker, and a task that has started runs on to its end
SpecChildrenFair == SpecChildren /\ WF_vars(NextChildren)

\* A state SpecChildren reaches with n pages: every page has committed
\* completed (pipeline exit 0, outputs written), the process-single jobs
\* have ended, and k of them (the last one to count, and any other that
\* counted after the last commit) have enqueued a merge job.
InitMerge ==
  \E n \in 1..(MaxDocs - 1) : \E k \in 1..n :
    /\ docs = [d \in DocIds |->
                 IF d = 1 THEN Document(GroupName, "queued", TRUE, 0, 0, 1)
                 ELSE IF d <= n + 1
                 THEN [Document(FileName(d - 1, "jpg"), "completed", FALSE, 1, d - 1, 1)
                         EXCEPT !.txt = join(1, FileName(d - 1, "txt")),
                                !.pdf = join(1, FileName(d - 1, "pdf"))]
                 ELSE NoDoc]
    /\ fs = [d \in Dirs |->
               IF d = 1
               THEN [exists |-> TRUE,
                     files |-> {FileName(i, e) : i \in 1..n,
                                                 e \in {"jpg", "txt", "pdf", "xml"}},
                     xml |-> [b \in Bases |->
                                IF b \in 1..n
                                THEN uniquify(generate_xml(Regions(FileName(b, "jpg"))), b)
                                ELSE <<>>]]
               ELSE NoDir]
    /\ jobs = [i \in 1..(n + k) |->
                 IF i <= n
                 THEN Closed([Job("single", i + 1, join(1, FileName(i, "jpg")), <<>>)
                                EXCEPT !.rc = 0])
                 ELSE Job("merge", 1, NoPath, <<>>)]
    /\ reqs = <<>>
    /\ nextDir = 2
    /\ hist = [d \in DocIds |->
                 IF d = 1 THEN <<"queued">>
                 ELSE IF d <= n + 1 THEN <<"queued", "processing", "completed">>
                 ELSE <<>>]
    /\ SiteIdle

NextMerge ==
  \/ mdt_query
  \/ mdt_commit_merging
  \/ mdt_children
  \/ mdt_pipeline
  \/ mdt_finally
  \/ delete_document_query
  \/ delete_document_rmtree
  \/ delete_document_children
  \/ delete_document_commit

\* the merge jobs of one container, and deletes
SpecMerge == InitMerge /\ [][NextMerge]_vars

NextRepeat ==
  \/ mdt_query
  \/ mdt_commit_merging
  \/ mdt_children
  \/ mdt_pipeline
  \/ mdt_finally

\* the merge jobs of one container alone, with nothing deleted
SpecRepeat == InitMerge /\ [][NextRepeat]_vars

\* A state a container of three pages reaches: the pages have completed,
\* k of their jobs have enqueued a merge job, and all pages but n have been
\* deleted since (n = 0: the merge jobs find no children).
InitChildless ==
  \E n \in 0..1 : \E k \in 1..(MaxDocs - 1) :
    /\ docs = [d \in DocIds |->
                 IF d = 1 THEN Document(GroupName, "queued", TRUE, 0, 0, 1)
                 ELSE IF d <= n + 1
                 THEN [Document(FileName(d - 1, "jpg"), "completed", FALSE, 1, d - 1, 1)
                         EXCEPT !.txt = join(1, FileName(d - 1, "txt")),
                                !.pdf = join(1, FileName(d - 1, "pdf"))]
                 ELSE NoDoc]
    /\ fs = [d \in Dirs |->
               IF d = 1
               THEN [exists |-> TRUE,
                     files |-> {FileName(i, e) : i \in 1..n,
                                                 e \in {"jpg", "txt", "pdf", "xml"}},
                     xml |-> [b \in Bases |->
                                IF b \in 1..n
                                THEN uniquify(generate_xml(Regions(FileName(b, "jpg"))), b)
                                ELSE <<>>]]
               ELSE NoDir]
    /\ jobs = [i \in 1..k |-> Job("merge", 1, NoPath, <<>>)]
    /\ reqs = <<>>
    /\ nextDir = 2
    /\ hist = [d \in DocIds |->
                 IF d = 1 THEN <<"queued">>
                 ELSE IF d <= n + 1 THEN <<"queued", "processing", "completed">>
                 ELSE <<>>]
    /\ SiteIdle

\* the merge jobs of a container that has lost pages
SpecChildless == InitChildless /\ [][NextRepeat]_vars

NextRebuild ==
  \/ upload_document
  \/ pdt_query
  \/ pdt_commit_processing
  \/ pdt_makedirs
  \/ pdt_load
  \/ pdt_popen
  \/ pdt_pipeline
  \/ pdt_after
  \/ pdt_commit_completed
  \/ pdt_parent
  \/ pdt_finally
  \/ pdt_cleanup
  \/ rebuild_pdf
  \/ rpt_query
  \/ rpt_commit_updating
  \/ rpt_pipeline
  \/ rpt_finally

\* single uploads, their process-single jobs, rebuild requests and their
\* rebuild jobs
SpecRebuild == InitEmpty /\ [][NextRebuild]_vars

NextUpload ==
  \/ upload_batch_parent
  \/ upload_batch_file
  \/ upload_batch_child
  \/ upload_batch_final
  \/ delete_document_query
  \/ delete_document_rmtree
  \/ delete_document_children
  \/ delete_document_commit

\* the request handlers alone: grouped uploads and deletes, every
\* process-batch job still in the queue
SpecUpload == InitEmpty /\ [][NextUpload]_vars

NextBatch ==
  \/ upload_batch_parent
  \/ upload_batch_file
  \/ upload_batch_child
  \/ upload_batch_final
  \/ pbt_query
  \/ pbt_commit_processing
  \/ pbt_load
  \/ pbt_makedirs
  \/ pbt_start
  \/ pbt_pipeline
  \/ pbt_after
  \/ pbt_finally
  \/ pbt_cleanup
  \/ rebuild_pdf
  \/ rpt_query
  \/ rpt_commit_updating
  \/ rpt_pipeline
  \/ rpt_finally
  \/ delete_document_query
  \/ delete_document_rmtree
  \/ delete_document_children
  \/ delete_document_commit

\* grouped uploads, their process-batch jobs, rebuilds and deletes
SpecBatch == InitEmpty /\ [][NextBatch]_vars

\* The ids of the sample markups: region and line ids as a pipeline writes
\* them, an id that carries a page prefix, and ids of neither family.
IdSamples ==
  {<<"r", "0">>, <<"r", "1", "2">>, <<"l", "0">>, page_prefix(1) \o <<"r", "0">>,
   <<"l">>, <<"r", "0", "x">>}

Markups == UNION {[1..n -> IdSamples] : n \in 0..MaxIds}

\* A page (id 2) of a container (id 1) whose markup file holds a sample
\* markup.  The pipeline has returned, and the job that ran it (a
\* process-single job of the page, or a process-batch job of the container)
\* is about to assign the completed status and post-process the markup.
InitRewrite ==
  \E m \in Markups : \E k \in 1..MaxPages : \E kind \in {"single", "batch"} :
    LET image == FileName(1, "jpg")
        container == Document(GroupName, IF kind = "batch" THEN "processing" ELSE "queued",
                              TRUE, 0, 0, 1)
        page == Document(image, "processing", FALSE, 1, k, 1)
    IN /\ docs = [d \in DocIds |->
                    IF d = 1 THEN container ELSE IF d = 2 THEN page ELSE NoDoc]
       /\ fs = [d \in Dirs |->
                  IF d = 1
                  THEN [exists |-> TRUE,
                        files |-> {image} \cup Outputs(join(1, image))
                                    \cup (IF kind = "batch"
                                          THEN Combined(merged_pdf_path(container))
                                          ELSE {}),
                        xml |-> [NoXml EXCEPT ![splitext0(image)] = m]]
                  ELSE NoDir]
       /\ jobs = <<IF kind = "single"
                   THEN [Job("single", 2, join(1, image), <<>>)
                           EXCEPT !.pc = "after", !.rc = 0, !.snap = page]
                   ELSE [Job("batch", 1, merged_pdf_path(container), <<join(1, image)>>)
                           EXCEPT !.pc = "after", !.rc = 0, !.snap = container,
                                  !.kids = {2}]>>
       /\ reqs = <<>>
       /\ nextDir = 2
       /\ hist = [d \in DocIds |->
                    IF d = 1
                    THEN IF kind = "batch" THEN <<"processing", "queued", "processing">>
                         ELSE <<"queued">>
                    ELSE IF d = 2 THEN <<"queued", "processing">>
                    ELSE <<>>]
       /\ SiteIdle

NextRewrite ==
  \/ pdt_after
  \/ pbt_after

\* the post-processing of the markup of a page, applied to sample markups
SpecRewrite == InitRewrite /\ [][NextRewrite]_vars

\* The state SpecSingle reaches when the process-single job of a single
\* upload has ended with the document completed (outputs written, paths
\* recorded), with k further process-single jobs of the same document and
\* input path in the queue.
InitRerun ==
  \E k \in 1..MaxRuns :
    LET image == FileName(1, "jpg")
        path == join(1, image)
    IN /\ docs = [d \in DocIds |->
                    IF d = 1
                    THEN [Document(image, "completed", FALSE, 0, 0, 1)
                            EXCEPT !.txt = join(1, FileName(1, "txt")),
                                   !.pdf = join(1, FileName(1, "pdf"))]
                    ELSE NoDoc]
       /\ fs = [d \in Dirs |->
                  IF d = 1
                  THEN [exists |-> TRUE, files |-> {image} \cup Outputs(path),
                        xml |-> [NoXml EXCEPT ![1] = generate_xml(Regions(image))]]
                  ELSE NoDir]
       /\ jobs = [i \in 1..(k + 1) |->
                    IF i = 1 THEN Closed([Job("single", 1, path, <<>>) EXCEPT !.rc = 0])
                    ELSE Job("single", 1, path, <<>>)]
       /\ reqs = <<>>
       /\ nextDir = 2
       /\ hist = [d \in DocIds |->
                    IF d = 1 THEN <<"queued", "processing", "completed">> ELSE <<>>]
       /\ SiteIdle

NextRerun ==
  \/ pdt_query
  \/ pdt_commit_processing
  \/ pdt_makedirs
  \/ pdt_load
  \/ pdt_popen
  \/ pdt_pipeline
  \/ pdt_after
  \/ pdt_commit_completed
  \/ pdt_parent
  \/ pdt_finally
  \/ pdt_cleanup

\* process-single jobs run again for a completed document
SpecRerun == InitRerun /\ [][NextRerun]_vars

\* the names a client gives the files of a grouped upload
Names == {FileName(b, e) : b \in 1..MaxPages, e \in {"jpg", "png"}}

\* The state upload_batch leaves when it has returned: a container (id 1)
\* and its n pages (ids 2..n+1, page_order 1..n) queued, the files stored
\* in the container's directory under the names the client gave them (as
\* sanitize_filename keeps them), and the process-batch job of the
\* container in the queue.
InitUniquify ==
  \E n \in 1..MaxPages : \E names \in [1..n -> Names] :
    /\ docs = [d \in DocIds |->
                 IF d = 1 THEN Document(GroupName, "queued", TRUE, 0, 0, 1)
                 ELSE IF d <= n + 1
                 THEN Document(names[d - 1], "queued", FALSE, 1, page_order(d - 2), 1)
                 ELSE NoDoc]
    /\ fs = [d \in Dirs |->
               IF d = 1
               THEN [exists |-> TRUE, files |-> {names[i] : i \in 1..n}, xml |-> NoXml]
               ELSE NoDir]
    /\ jobs = <<Job("batch", 1, NoPath, [i \in 1..n |-> join(1, names[i])])>>
    /\ reqs = <<>>
    /\ nextDir = 2
    /\ hist = [d \in DocIds |->
                 IF d = 1 THEN <<"processing", "queued">>
                 ELSE IF d <= n + 1 THEN <<"queued">>
                 ELSE <<>>]
    /\ SiteIdle

NextUniquify ==
  \/ pbt_query
  \/ pbt_commit_processing
  \/ pbt_load
  \/ pbt_makedirs
  \/ pbt_start
  \/ pbt_pipeline
  \/ pbt_after
  \/ pbt_finally
  \/ pbt_cleanup

\* the process-batch job of a grouped upload whose files have any names
SpecUniquify == InitUniquify /\ [][NextUniquify]_vars

\* A worker process that runs its tasks at the same time (a thread or
\* greenlet pool): a container (id 1) with n pages (ids 2..n+1) in directory
\* 1, either just uploaded as a group (its process-batch job queued) or its
\* pages processed one by one (its merge job queued), and a rebuild of page
\* c requested; both jobs are taken by the same process.
InitThreads ==
  \E n \in 1..MaxPages : \E c \in 2..(n + 1) : \E kind \in {"batch", "merge"} :
    LET done == kind = "merge"
        inputs == [i \in 1..n |-> join(1, FileName(i, "jpg"))]
    IN
    /\ docs = [d \in DocIds |->
                 IF d = 1 THEN Document(GroupName, "queued", TRUE, 0, 0, 1)
                 ELSE IF d <= n + 1
                 THEN [Document(FileName(d - 1, "jpg"),
                                IF d = c THEN "updating_pdf"
                                ELSE IF done THEN "completed" ELSE "queued",
                                FALSE, 1, d - 1, 1)
                         EXCEPT !.txt = IF done THEN join(1, FileName(d - 1, "txt"))
                                        ELSE NoPath,
                                !.pdf = IF done THEN join(1, FileName(d - 1, "pdf"))
                                        ELSE NoPath]
                 ELSE NoDoc]
    /\ fs = [d \in Dirs |->
               IF d = 1
               THEN [exists |-> TRUE,
                     files |-> {FileName(i, e) : i \in 1..n,
                                  e \in IF done THEN {"jpg", "txt", "pdf", "xml"}
                                        ELSE {"jpg"}},
                     xml |-> [b \in Bases |->
                                IF done /\ b \in 1..n
                                THEN uniquify(generate_xml(Regions(FileName(b, "jpg"))), b)
                                ELSE <<>>]]
               ELSE NoDir]
    /\ jobs = (IF done
               THEN [i \in 1..n |->
                       Closed([Job("single", i + 1, inputs[i], <<>>) EXCEPT !.rc = 0])]
               ELSE <<>>)
              \o <<[Job(kind, 1, NoPath, IF done THEN <<>> ELSE inputs)
                      EXCEPT !.proc = 1],
                   [Job("rebuild", c, inputs[c - 1], <<>>) EXCEPT !.proc = 1]>>
    /\ reqs = <<[Request("rebuild", c, 1, FALSE) EXCEPT !.pc = "done"]>>
    /\ nextDir = 2
    /\ hist = [d \in DocIds |->
                 IF d = 1 THEN IF done THEN <<"queued">> ELSE <<"processing", "queued">>
                 ELSE IF d <= n + 1
                 THEN (IF done THEN <<"queued", "processing", "completed">>
                       ELSE <<"queued">>)
                      \o (IF d = c THEN <<"updating_pdf">> ELSE <<>>)
                 ELSE <<>>]
    /\ SiteIdle

NextThreads ==
  \/ pbt_query
  \/ pbt_commit_processing
  \/ pbt_load
  \/ pbt_makedirs
  \/ pbt_start
  \/ pbt_pipeline
  \/ pbt_after
  \/ pbt_finally
  \/ pbt_cleanup
  \/ mdt_query
  \/ mdt_commit_merging
  \/ mdt_children
  \/ mdt_pipeline
  \/ mdt_finally
  \/ rpt_query
  \/ rpt_commit_updating
  \/ rpt_pipeline
  \/ rpt_finally

\* two in-process jobs of one worker process running at the same time
SpecThreads == InitThreads /\ [][NextThreads]_vars

\* A grouped upload of n files under way: upload_batch has committed the
\* container (id 1) and made its directory, and is about to store the first
\* file; every directory name a later upload draws is another one.
InitDirs ==
  \E n \in 1..MaxPages :
    /\ docs = [d \in DocIds |->
                 IF d = 1 THEN Document(GroupName, "processing", TRUE, 0, 0, MaxDirs + 1)
                 ELSE NoDoc]
    /\ fs = [d \in Dirs |-> IF d = MaxDirs + 1 THEN makedirs([x \in Dirs |-> NoDir], d)[d]
                            ELSE NoDir]
    /\ jobs = <<>>
    /\ reqs = <<[Request("upload_batch", 1, MaxDirs + 1, TRUE)
                   EXCEPT !.pc = "file", !.n = n, !.next = 1]>>
    /\ nextDir = 1
    /\ hist = [d \in DocIds |-> IF d = 1 THEN <<"processing">> ELSE <<>>]
    /\ SiteIdle

NextDirs ==
  \/ upload_document
  \/ upload_batch_file
  \/ upload_batch_child
  \/ upload_batch_final
  \/ delete_document_query
  \/ delete_document_rmtree
  \/ delete_document_children
  \/ delete_document_commit
  \/ pdt_query
  \/ pdt_commit_processing
  \/ pdt_makedirs
  \/ pdt_load
  \/ pdt_popen
  \/ pdt_pipeline
  \/ pdt_after
  \/ pdt_commit_completed
  \/ pdt_parent
  \/ pdt_finally
  \/ pdt_cleanup
  \/ pbt_query
  \/ pbt_commit_processing
  \/ pbt_load
  \/ pbt_makedirs
  \/ pbt_start
  \/ pbt_pipeline
  \/ pbt_after
  \/ pbt_finally
  \/ pbt_cleanup

\* a grouped upload and its job next to a single upload, its job and a delete
SpecDirs == InitDirs /\ [][NextDirs]_vars

\* the texts around the digit run of a name, and the digit runs
NameHeads == {<<>>, <<"a", "_">>, <<"A">>, <<"sup2">>}

NameTails == {<<>>, <<".", "a">>}

DigitRuns ==
  UNION {[1..n -> {AsciiDigits[i] : i \in 1..Len(AsciiDigits)}] : n \in 1..MaxRun}

\* A run of the legacy command whose inputs are up to MaxNames file names
\* that differ only in their digit run, in any order.
InitSort ==
  \E head \in NameHeads : \E tail \in NameTails :
    \E n \in 2..MaxNames : \E runs \in [1..n -> DigitRuns] :
      /\ docs = [d \in DocIds |-> NoDoc]
      /\ fs = [d \in Dirs |-> NoDir]
      /\ jobs = <<Job("legacy", 0, NoPath, [i \in 1..n |-> head \o runs[i] \o tail])>>
      /\ reqs = <<>>
      /\ nextDir = 1
      /\ hist = [d \in DocIds |-> <<>>]
      /\ SiteIdle

NextSort ==
  \/ sort_image_files
  \/ process_image_files

\* the legacy command orders its input files
SpecSort == InitSort /\ [][NextSort]_vars

\* A single upload (document 1) and a grouped upload of n files (container
\* 2), submitted with the same model and options, their jobs in the queue.
InitCommand ==
  \E n \in 1..MaxPages : \E m \in Models : \E o \in OptionSets :
    /\ docs = [d \in DocIds |->
                 IF d = 1 THEN Document(FileName(1, "jpg"), "queued", FALSE, 0, 0, 1)
                 ELSE IF d = 2 THEN Document(GroupName, "queued", TRUE, 0, 0, 2)
                 ELSE NoDoc]
    /\ fs = [d \in Dirs |-> NoDir]
    /\ jobs = <<Job("single", 1, join(1, FileName(1, "jpg")), <<>>)
                   @@ [model |-> m, options |-> o, cmd |-> <<>>],
                 Job("batch", 2, NoPath, [i \in 1..n |-> join(2, FileName(i, "jpg"))])
                   @@ [model |-> m, options |-> o, cmd |-> <<>>]>>
    /\ reqs = <<>>
    /\ nextDir = 1
    /\ hist = [d \in DocIds |-> IF d <= 2 THEN <<"queued">> ELSE <<>>]
    /\ SiteIdle

NextCommand ==
  \/ pdt_cmd
  \/ pbt_cmd

\* the commands of a process-single and a process-batch job
SpecCommand == InitCommand /\ [][NextCommand]_vars

\* no call has been made and Redis holds no counter
InitRate ==
  /\ docs = [d \in DocIds |-> NoDoc]
  /\ fs = [d \in Dirs |-> NoDir]
  /\ jobs = <<>>
  /\ reqs = <<>>
  /\ nextDir = 1
  /\ hist = [d \in DocIds |-> <<>>]
  /\ users = <<>>
  /\ invitations = <<>>
  /\ preferences = <<>>
  /\ redis = [k \in {"login"} |-> NoCounter]
  /\ now = 0

NextRate ==
  \/ login_for_access_token
  \/ tick

\* the logins of one client host as time passes
SpecRate == InitRate /\ [][NextRate]_vars

\* An administrator (user 1) has created the invitations, none used yet.
InitInvite ==
  /\ docs = [d \in DocIds |-> NoDoc]
  /\ fs = [d \in Dirs |-> NoDir]
  /\ jobs = <<>>
  /\ reqs = <<>>
  /\ nextDir = 1
  /\ hist = [d \in DocIds |-> <<>>]
  /\ users = [u \in UserIds |-> IF u = 1 THEN User(1, TRUE, 0) ELSE NoUser]
  /\ invitations = [t \in Invites |-> [exists |-> TRUE, is_used |-> FALSE]]
  /\ preferences = <<>>
  /\ redis = <<>>
  /\ now = 0

NextInvite ==
  \/ register_invite
  \/ register_user
  \/ register_commit

\* register requests in invite mode
SpecInvite == InitInvite /\ [][NextInvite]_vars

\* MaxUsers users, none locked, one of them at least an administrator; no
\* preference is stored.
InitAdmins ==
  \E admins \in SUBSET UserIds :
    /\ admins # {}
    /\ docs = [d \in DocIds |-> NoDoc]
    /\ fs = [d \in Dirs |-> NoDir]
    /\ jobs = <<>>
    /\ reqs = <<>>
    /\ nextDir = 1
    /\ hist = [d \in DocIds |-> <<>>]
    /\ users = [u \in UserIds |-> User(u, u \in admins, 0)]
    /\ invitations = <<>>
    /\ preferences = [u \in UserIds |-> NoPreference]
    /\ redis = <<>>
    /\ now = 0

NextAdmins ==
  \/ get_current_user
  \/ update_user_role
  \/ update_user
  \/ delete_user

\* the requests of administrators that change users
SpecAdmins == InitAdmins /\ [][NextAdmins]_vars

\* Two users; the first may have stored preferences before.
InitPrefs ==
  \E stored \in Dicts :
    /\ docs = [d \in DocIds |-> NoDoc]
    /\ fs = [d \in Dirs |-> NoDir]
    /\ jobs = <<>>
    /\ reqs = <<>>
    /\ nextDir = 1
    /\ hist = [d \in DocIds |-> <<>>]
    /\ users = [u \in UserIds |-> IF u <= 2 THEN User(u, u = 1, 0) ELSE NoUser]
    /\ invitations = <<>>
    /\ preferences = [u \in UserIds |->
                        IF u = 1 /\ stored # EmptyDict
                        THEN [exists |-> TRUE, preferences |-> stored]
                        ELSE NoPreference]
    /\ redis = <<>>
    /\ now = 0

NextPrefs ==
  \/ get_user_preferences
  \/ update_user_preferences_query
  \/ update_user_preferences
  \/ reset_user_preferences

\* the preference requests of the users
SpecPrefs == InitPrefs /\ [][NextPrefs]_vars

\* -------------------------------------------------------------- properties
JobsOf(d) == {j \in JobIds : jobs[j].doc = d}

DeletesOf(d) == {r \in ReqIds : reqs[r].kind = "delete" /\ reqs[r].doc = d}

MergesOf(p) == {j \in JobIds : jobs[j].kind = "merge" /\ jobs[j].doc = p}

Containers == {c \in Present : docs[c].isc}

\* C1: in every reachable state every child of a container whose status is
\* completed has status completed.
C1_CompletedContainerHasCompletedChildren ==
  \A c \in Containers :
    docs[c].status = "completed"
      => \A k \in ChildrenOf(c) : docs[k].status = "completed"

\* C2: once the process-single jobs of all children of a container have
\* ended and all children are completed, exactly one merge job has been
\* enqueued for the container.
C2_ExactlyOneMerge ==
  \A c \in Containers :
    ( /\ ChildrenOf(c) # {}
      /\ \A k \in ChildrenOf(c) :
           /\ docs[k].status = "completed"
           /\ \A j \in JobsOf(k) : jobs[j].pc = "done" )
    => Cardinality(MergesOf(c)) = 1

\* C3: when the merge jobs of a container, however many, have all ended
\* after a pipeline that returned normally (and nothing was deleted), the
\* container is completed with output_pdf_path <dir>/<filename> and
\* output_txt_path the same with .txt: the result of one such job.
C3_RepeatedMergeSameResult ==
  \A c \in Containers :
    ( /\ MergesOf(c) # {}
      /\ \A j \in MergesOf(c) : jobs[j].pc = "done" /\ jobs[j].rc = 0
      /\ reqs = <<>> )
    => /\ docs[c].status = "completed"
       /\ docs[c].pdf = [dir |-> docs[c].dir, base |-> docs[c].fname.base,
                         ext |-> docs[c].fname.ext]
       /\ docs[c].txt = [dir |-> docs[c].dir, base |-> docs[c].fname.base,
                         ext |-> "txt"]
       /\ \A j \in MergesOf(c) : ~jobs[j].raised

C3_Witness ==
  \E c \in Containers :
    /\ Cardinality(MergesOf(c)) >= 2
    /\ \A j \in MergesOf(c) : jobs[j].pc = "done" /\ jobs[j].rc = 0
    /\ reqs = <<>>
    /\ docs[c].status = "completed"

\* C4: a standalone document deleted while its process-single job runs
\* leaves, once the delete request and the job have both finished, no
\* storage directory and no record.
C4_DeleteDuringSingleLeavesNothing ==
  \A r \in ReqIds : \A j \in JobIds :
    ( /\ reqs[r].kind = "delete" /\ reqs[r].pc = "done" /\ reqs[r].during
      /\ ~reqs[r].isc
      /\ jobs[j].kind = "single" /\ jobs[j].pc = "done"
      /\ jobs[j].doc = reqs[r].doc /\ dirname(jobs[j].path) = reqs[r].dir )
    => /\ ~DirExists(reqs[r].dir)
       /\ ~docs[reqs[r].doc].exists

\* C5: a job that ends while the record of its document is gone leaves no
\* storage directory of the document behind (it ends by re-reading the
\* record and removing the directory).
C5_EveryJobEndsWithCleanup ==
  [][\A j \in JobIds :
       ( /\ jobs[j].pc \notin {"queued", "done"}
         /\ jobs'[j].pc = "done"
         /\ ~docs'[jobs[j].doc].exists )
       => ~fs'[dirname(jobs[j].path)].exists]_vars

\* C6: a process-batch job whose container was gone when its pipeline
\* returned normally ends without an exception and with the container's
\* storage directory removed.
C6_BatchDeletedReachesCleanup ==
  \A j \in JobIds :
    ( /\ jobs[j].kind = "batch" /\ jobs[j].pc = "done"
      /\ jobs[j].rc = 0 /\ jobs[j].gone )
    => /\ ~jobs[j].raised
       /\ ~DirExists(dirname(jobs[j].path))

\* the statuses a document has had
Statuses(d) == {hist[d][i] : i \in 1..Len(hist[d])}

\* C7: once the pipeline of a child's process-single job has exited
\* non-zero, no merge job is ever enqueued for the child's container and the
\* container's status never is completed, whatever the other children do.
C7_FailedChildBlocksMerge ==
  \A j \in JobIds :
    ( /\ jobs[j].kind = "single" /\ jobs[j].rc = 1
      /\ docs[jobs[j].doc].exists /\ docs[jobs[j].doc].parent # 0 )
    => LET c == docs[jobs[j].doc].parent IN
       /\ MergesOf(c) = {}
       /\ "completed" \notin Statuses(c)
       /\ "completed" \notin Statuses(jobs[j].doc)

C7_Witness ==
  \E i, j \in JobIds :
    /\ jobs[i].kind = "single" /\ jobs[i].pc = "done" /\ jobs[i].rc = 1
    /\ jobs[j].kind = "single" /\ jobs[j].pc = "done" /\ jobs[j].rc = 0
    /\ docs[jobs[i].doc].status = "error"
    /\ docs[jobs[j].doc].status = "completed"
    /\ docs[jobs[i].doc].parent = docs[jobs[j].doc].parent
    /\ docs[jobs[i].doc].parent # 0
    /\ total_children(docs[jobs[i].doc].parent) = 2

\* C8: a single uploaded document whose pipeline exits 0, with no delete and
\* no other job on it, has the committed status sequence queued, processing,
\* completed and the output paths <input dir>/<basename>.txt and .pdf.
C8_SingleSuccessScenario ==
  \A j \in JobIds :
    ( /\ jobs[j].kind = "single" /\ jobs[j].pc = "done" /\ jobs[j].rc = 0
      /\ DeletesOf(jobs[j].doc) = {}
      /\ JobsOf(jobs[j].doc) = {j} )
    => LET d == jobs[j].doc IN
       /\ docs[d].exists
       /\ hist[d] = <<"queued", "processing", "completed">>
       /\ docs[d].txt = [dir |-> jobs[j].path.dir, base |-> jobs[j].path.base,
                         ext |-> "txt"]
       /\ docs[d].pdf = [dir |-> jobs[j].path.dir, base |-> jobs[j].path.base,
                         ext |-> "pdf"]
       /\ docs[d].dir = jobs[j].path.dir
       /\ docs[d].fname.base = jobs[j].path.base

C8_Witness ==
  \E j \in JobIds :
    /\ jobs[j].kind = "single" /\ jobs[j].pc = "done" /\ jobs[j].rc = 0
    /\ DeletesOf(jobs[j].doc) = {}
    /\ JobsOf(jobs[j].doc) = {j}
    /\ docs[jobs[j].doc].status = "completed"

\* the last n lines with text of an output, by position
TextLines(out) == SelectSeq(out, LAMBDA x : x # 0)

ExpectedTail(out, n) ==
  LET t == TextLines(out)
      k == IF Len(t) < n THEN Len(t) ELSE n
  IN [i \in 1..k |-> t[Len(t) - k + i]]

\* C9: after a non-zero pipeline exit of a process-single job whose document
\* still exists, the document has status error, its error_message carries the
\* last 10 non-empty output lines, the job has set no output path, and no
\* further job has been enqueued for the document.
C9_PipelineFailureRecorded ==
  \A j \in JobIds :
    ( /\ jobs[j].kind = "single" /\ jobs[j].rc = 1 /\ ~jobs[j].raised
      /\ jobs[j].pc \in {"cleanup", "done"}
      /\ DeletesOf(jobs[j].doc) = {} )
    => LET d == jobs[j].doc IN
       /\ docs[d].exists
       /\ docs[d].status = "error"
       /\ docs[d].err.kind = "subscript"
       /\ docs[d].err.tail = ExpectedTail(jobs[j].out, 10)
       /\ docs[d].txt = NoPath
       /\ docs[d].pdf = NoPath
       /\ JobsOf(d) = {j}

C9_Witness ==
  \E j \in JobIds :
    /\ jobs[j].kind = "single" /\ jobs[j].rc = 1 /\ jobs[j].pc = "done"
    /\ ~jobs[j].raised
    /\ DeletesOf(jobs[j].doc) = {}
    /\ Len(TextLines(jobs[j].out)) > 10
    /\ Len(jobs[j].out) > Len(TextLines(jobs[j].out))
    /\ docs[jobs[j].doc].status = "error"

\* C10: the final commit of a merge job that has failed (its container
\* still there) leaves the container with status error and an error message,
\* and every other row, the children among them, as it was.
C10_MergeFailureSetsErrorOnly ==
  [][\A j \in JobIds :
       ( /\ jobs[j].kind = "merge" /\ jobs[j].pc = "finally"
         /\ jobs[j].pend.status = "error"
         /\ jobs'[j].pc = "done"
         /\ docs[jobs[j].doc].exists )
       => /\ docs'[jobs[j].doc].status = "error"
          /\ docs'[jobs[j].doc].err.kind # "none"
          /\ \A k \in DocIds \ {jobs[j].doc} : docs'[k] = docs[k]]_vars

\* C11: no step sets a status to processing from a status other than queued,
\* and no step sets a queued status to merging (a job that would do so
\* leaves the status as it is).
C11_IllegalTransitionRefused ==
  [][\A d \in DocIds :
       (docs[d].exists /\ docs'[d].exists) =>
         /\ (docs'[d].status = "processing" /\ docs[d].status # "processing")
              => docs[d].status = "queued"
         /\ docs[d].status = "queued" => docs'[d].status # "merging"]_vars

\* C12: every committed change of a status to error is made over processing,
\* merging or updating_pdf; in particular completed is never changed
\* directly to error.
C12_ErrorOnlyFromRunning ==
  [][\A d \in DocIds :
       ( /\ docs[d].exists /\ docs'[d].exists
         /\ docs'[d].status = "error" /\ docs[d].status # "error" )
       => docs[d].status \in {"processing", "merging", "updating_pdf"}]_vars

\* the documents a job is responsible for
Charge(j) ==
  {jobs[j].doc} \cup
    (IF jobs[j].kind = "batch" THEN ChildrenOf(jobs[j].doc) ELSE {})

\* C13: once every dispatched job has ended (and no delete or rebuild was
\* requested), the document of each job, and for a process-batch job the
\* container and its children, has status completed or error.
C13_JobsEndTerminal ==
  ( /\ UserRequests = {}
    /\ \A i \in JobIds : jobs[i].pc = "done" )
  => \A j \in JobIds : \A d \in Charge(j) :
       docs[d].exists => docs[d].status \in {"completed", "error"}

\* C14: the first committed status of every document is queued.
C14_CreatedQueued ==
  \A d \in Present : hist[d] # <<>> /\ Head(hist[d]) = "queued"

\* C15: a step that changes the status of an existing document is a step of
\* a job, never a step of a request handler (the steps that change reqs).
C15_HandlersLeaveStatus ==
  [][\A d \in DocIds :
       ( /\ docs[d].exists /\ docs'[d].exists
         /\ docs'[d].status # docs[d].status )
       => reqs' = reqs]_vars

\* the grouped uploads in progress or done
Uploads == {r \in ReqIds : reqs[r].kind = "upload_batch"}

\* C16: while nothing is deleted, the children a grouped upload has created
\* so far have the page_order values 1, 2, ..., one each, the i-th uploaded
\* file having page_order i; when the upload is done these are 1..N.
C16_PageOrderDense ==
  \A r \in Uploads :
    DeletesOf(reqs[r].doc) = {} /\ (\A k \in DocIds : DeletesOf(k) = {})
    => LET kids == ChildrenOf(reqs[r].doc)
           made == IF reqs[r].pc = "done" THEN reqs[r].n ELSE reqs[r].next - 1
       IN /\ Cardinality(kids) = made
          /\ {docs[k].order : k \in kids} = 1..made
          /\ \A k \in kids : docs[k].fname = FileName(docs[k].order, "jpg")
          /\ \A k, l \in kids : docs[k].order < docs[l].order => k < l

C16_Witness ==
  \E r \in Uploads :
    /\ reqs[r].pc = "done" /\ reqs[r].n = MaxPages
    /\ \A k \in DocIds : DeletesOf(k) = {}
    /\ {docs[k].order : k \in ChildrenOf(reqs[r].doc)} = 1..MaxPages

\* the children of c with a page_order up to that of k
UpTo(c, k) == {e \in ChildrenOf(c) : docs[e].order <= docs[k].order}

C18_TwoLevels ==
  \A d \in Present :
    docs[d].parent # 0
    => /\ ~docs[d].isc
       /\ docs[d].parent # d
       /\ docs[docs[d].parent].exists
            => /\ docs[docs[d].parent].isc
               /\ docs[docs[d].parent].parent = 0

\* the markup of page d
MarkupOf(d) == fs[docs[d].dir].xml[splitext0(docs[d].fname)]

\* id carries the page prefix of page_order k in front of an identifier of
\* the family of letter
Prefixed(id, letter, k) ==
  LET n == Len(page_prefix(k)) IN
    /\ Len(id) > n
    /\ SubSeq(id, 1, n) = page_prefix(k)
    /\ Matches(letter, SubSeq(id, n + 1, Len(id)))

\* C19: the identifier rewrite of a page, applied twice to a markup with the
\* same page_order, gives the markup that applying it once gives; this holds
\* of every markup a page has, before the rewrite and after it.
C19_RewriteIdempotent ==
  \A d \in Present : docs[d].parent # 0 =>
    uniquify(uniquify(MarkupOf(d), docs[d].order), docs[d].order)
      = uniquify(MarkupOf(d), docs[d].order)

\* the rewrite has run on a markup with a line id and has prefixed it (no
\* sample markup holds a prefixed line id)
C19_Witness ==
  /\ \A j \in JobIds : jobs[j].pc # "after"
  /\ \E d \in Present :
       /\ docs[d].parent # 0
       /\ \E i \in 1..Len(MarkupOf(d)) : Prefixed(MarkupOf(d)[i], "l", docs[d].order)
\* the post-processing loop of a process-batch job of container c has run
\* over every child
PostProcessedAll(c) ==
  \E j \in JobIds :
    /\ jobs[j].kind = "batch"
    /\ jobs[j].doc = c
    /\ jobs[j].pc \in {"finally", "cleanup", "done"}
    /\ jobs[j].rc = 0
    /\ jobs[j].kpend # "error"
    /\ ~jobs[j].raised

\* C20: once the identifier rewrite has run on the markup of every child of
\* a container, every identifier in the markup file of a child carries the
\* prefix p<page_order>_ of that child in front of a region or line id.
C20_IdsCarryOwnPrefix ==
  \A c \in Containers : PostProcessedAll(c) =>
    \A d \in ChildrenOf(c) :
      FileExists(join(docs[d].dir, FileName(splitext0(docs[d].fname), "xml"))) =>
        \A i \in 1..Len(MarkupOf(d)) :
          \/ Prefixed(MarkupOf(d)[i], "r", docs[d].order)
          \/ Prefixed(MarkupOf(d)[i], "l", docs[d].order)
\* the exception a process-single job has caught, other than a non-zero
\* pipeline exit
Caught(j) ==
  /\ jobs[j].kind = "single"
  /\ jobs[j].pc = "finally"
  /\ jobs[j].pend.err.kind \notin {"none", "subscript"}

\* C21: the commit that ends a process-single job which caught an exception
\* other than a non-zero pipeline exit, the document still being there,
\* writes status error and the exception text and leaves the output paths
\* as they were committed before (the uncommitted completed status and
\* paths are not written).
C21_ExceptionRollsBack ==
  [][\A j \in JobIds :
       (Caught(j) /\ jobs'[j].pc # "finally" /\ docs[jobs[j].doc].exists)
       => LET d == jobs[j].doc IN
          /\ docs'[d].exists
          /\ docs'[d].status = "error"
          /\ docs'[d].err = jobs[j].pend.err
          /\ docs'[d].txt = docs[d].txt
          /\ docs'[d].pdf = docs[d].pdf]_vars

\* a job whose commit of completed failed has ended, and its document has
\* status error with the text of that exception
C21_Witness ==
  \E j \in JobIds :
    /\ jobs[j].kind = "single" /\ jobs[j].pc = "done" /\ jobs[j].rc = 2
    /\ docs[jobs[j].doc].exists
    /\ docs[jobs[j].doc].status = "error"
    /\ docs[jobs[j].doc].err = ExcMessage("OperationalError")
    /\ docs[jobs[j].doc].txt = NoPath

\* the ids whose rows a committed delete request has deleted
Deleted ==
  UNION {deleted_rows(r) : r \in {q \in ReqIds : ReqAt(q, "delete", "done")}}

\* C22: after the delete of a document is committed the registry never
\* again contains a document with its id (no job and no handler creates a
\* row with that id, so no job commits a status for it).
C22_DeletedStaysDeleted == \A d \in Deleted : ~docs[d].exists

\* C23: when the process-single jobs run again for a completed document
\* (same input path) have all ended with a pipeline that exited 0, the
\* document has status completed and the output paths it had before they
\* ran, <directory>/<base name>.txt and .pdf.
C23_RerunKeepsCompleted ==
  \A d \in Present :
    ( /\ SubSeq(hist[d], 1, 3) = <<"queued", "processing", "completed">>
      /\ \A j \in JobsOf(d) :
           jobs[j].kind = "single" /\ jobs[j].pc = "done" /\ jobs[j].rc = 0 )
    => /\ docs[d].status = "completed"
       /\ docs[d].txt = WithExt(join(docs[d].dir, docs[d].fname), "txt")
       /\ docs[d].pdf = WithExt(join(docs[d].dir, docs[d].fname), "pdf")

\* a job run again has committed processing and then completed
C23_Witness ==
  \E d \in Present :
    /\ \A j \in JobsOf(d) : jobs[j].pc = "done" /\ jobs[j].rc = 0
    /\ Len(hist[d]) >= 5
    /\ SubSeq(hist[d], 1, 5) =
         <<"queued", "processing", "completed", "processing", "completed">>
    /\ docs[d].status = "completed"

\* the argument vector task j assigns to sys.argv
OwnArgv(j) ==
  IF jobs[j].kind = "batch" THEN batch_argv(jobs[j].paths, jobs[j].path)
  ELSE IF jobs[j].kind = "merge" THEN merge_argv(jobs[j].path, jobs[j].paths)
  ELSE rebuild_argv(jobs[j].path)

\* the pipeline of task j has parsed its arguments
HasParsed(j) ==
  /\ jobs[j].kind \in {"batch", "merge", "rebuild"}
  /\ \/ jobs[j].kind = "batch" /\ jobs[j].pc \in {"pipeline", "after"}
     \/ jobs[j].pc \in {"finally", "cleanup"} /\ jobs[j].rc # -1

\* C24: no process-batch, merge or rebuild job shares a mutable
\* process-global value with a job running at the same time in the same
\* worker process: the pipeline of every job runs with the arguments that
\* this job has assigned (its own inputs, as far as they exist, its own
\* mode and its own combined file), never with another job's.
C24_PipelineRunsWithOwnArguments ==
  \A j \in JobIds :
    HasParsed(j) => jobs[j].args = Parsed(OwnArgv(j))

\* every child has the directory_name of the document its parent_id names
ChildInContainerDir ==
  \A d \in Present :
    (docs[d].parent # 0 /\ docs[docs[d].parent].exists)
      => docs[d].dir = docs[docs[d].parent].dir

\* a document created without a parent that is no container shares its
\* directory_name with no other document
StandaloneOwnDir ==
  \A d \in DocIds :
    (~docs[d].exists /\ docs'[d].exists /\ docs'[d].parent = 0 /\ ~docs'[d].isc)
      => \A e \in DocIds \ {d} : docs'[e].exists => docs'[e].dir # docs'[d].dir

\* no step changes the directory_name of a row
DirImmutable ==
  \A d \in DocIds :
    (docs[d].exists /\ docs'[d].exists) => docs'[d].dir = docs[d].dir

StandaloneOwnDirAlways == [][StandaloneOwnDir]_vars

DirImmutableAlways == [][DirImmutable]_vars

\* C25: every child of a grouped upload has the directory_name of its
\* container, every document of a single upload has a directory_name of its
\* own, and no handler or job changes a directory_name after creation.
C25_DirectoryNames ==
  [][ChildInContainerDir' /\ StandaloneOwnDir /\ DirImmutable]_vars

\* the pipeline of process-single job j has ended with exit code 0 and the
\* output directory is gone
OutputDirGone(j) ==
  /\ At(j, "single", "after")
  /\ jobs[j].rc = 0
  /\ ~fs[jobs[j].path.dir].exists

\* C26: when the pipeline of a process-single job has ended with exit code 0
\* and the output directory no longer exists, the job goes on to its end
\* without raising and writes nothing to the registry: no completed status,
\* no error status and no output path.
C26_GoneDirectoryEndsQuietly ==
  [][\A j \in JobIds :
       /\ (OutputDirGone(j) /\ jobs'[j] # jobs[j])
            => /\ jobs'[j].pc = "cleanup"
               /\ jobs'[j].pend = NoPend
               /\ ~jobs'[j].raised
               /\ docs' = docs
       /\ (At(j, "single", "cleanup") /\ jobs'[j] # jobs[j])
            => /\ jobs'[j].pc = "done"
               /\ ~jobs'[j].raised
               /\ docs' = docs]_vars

\* a job has ended that way while the row is still there, left as it was
C26_Witness ==
  \E j \in JobIds :
    /\ At(j, "single", "done")
    /\ jobs[j].rc = 0
    /\ ~jobs[j].raised
    /\ ~fs[jobs[j].path.dir].exists
    /\ docs[jobs[j].doc].exists
    /\ docs[jobs[j].doc].status = "processing"
    /\ docs[jobs[j].doc].txt = NoPath

\* the numeric value of the digit run of a name of a legacy run
RunValue(name) == natural_sort_key(name)[2].val

\* the names have been put in order
Sorted(j) == jobs[j].kind = "legacy" /\ jobs[j].pc \in {"sorted", "done"}

\* names without a character that is a digit only to str.isdigit() come
\* out in the order of the numeric values of their digit runs
AsciiNamesInNumericOrder ==
  \A j \in JobIds :
    (Sorted(j) /\ \A i \in 1..Len(jobs[j].paths) :
                   \A k \in 1..Len(jobs[j].paths[i]) : jobs[j].paths[i][k] # "sup2")
      => /\ ~jobs[j].raised
         /\ \A a, b \in 1..Len(jobs[j].paths) :
              a < b => RunValue(jobs[j].paths[a]) <= RunValue(jobs[j].paths[b])

\* C27: sorting file names that differ only in an embedded run of digits
\* with natural_sort_key puts them in the order of the numeric values of
\* that run, for every list of such names and every initial order.
C27_NaturalOrder ==
  \A j \in JobIds :
    Sorted(j)
      => /\ ~jobs[j].raised
         /\ \A a, b \in 1..Len(jobs[j].paths) :
              a < b => RunValue(jobs[j].paths[a]) <= RunValue(jobs[j].paths[b])

Terminal == {"completed", "error"}

\* C28: a process-batch job writes the terminal statuses of the container
\* and of all its children in one commit, so a reader of the registry never
\* sees a container in a terminal status (completed or error) with a child
\* that is still processing.
C28_NoTerminalContainerOverProcessingChild ==
  \A p \in Present :
    (docs[p].isc /\ docs[p].status \in Terminal)
      => \A d \in ChildrenOf(p) : docs[d].status # "processing"

\* the step of process-batch job j commits a terminal status of its container
BatchCommitsTerminal(j) ==
  /\ jobs[j].kind = "batch"
  /\ jobs'[j] # jobs[j]
  /\ docs[jobs[j].doc].exists
  /\ docs'[jobs[j].doc].exists
  /\ docs'[jobs[j].doc] # docs[jobs[j].doc]
  /\ docs'[jobs[j].doc].status \in Terminal

\* in the step of a process-batch job that makes the container completed
\* every child becomes completed, in the step that makes it error every
\* child becomes error with the message "Batch processing failed"
BatchTerminalInOneCommit ==
  [][\A j \in JobIds :
       BatchCommitsTerminal(j)
         => \A d \in DocIds :
              (docs'[d].exists /\ docs'[d].parent = jobs[j].doc)
                => /\ docs'[d].status = docs'[jobs[j].doc].status
                   /\ docs'[d].status = "error"
                        => docs'[d].err = ExcMessage("Batch processing failed")]_vars

SingleJobs == {j \in JobIds : jobs[j].kind = "single"}

\* every child of container p is processed by a process-single job, and
\* the pipeline of every one of them has exited with code 0
AllChildrenExitZero(p) ==
  /\ ChildrenOf(p) # {}
  /\ \A d \in ChildrenOf(p) : \E j \in SingleJobs : jobs[j].doc = d
  /\ \A j \in SingleJobs : jobs[j].rc = 0

MergeEnqueued(p) == \E j \in JobIds : jobs[j].kind = "merge" /\ jobs[j].doc = p

\* C29: when every child of the container has been processed by a
\* process-single job whose pipeline exited 0 (nothing is deleted or
\* processed again), then under fair scheduling of the workers a merge job
\* is eventually enqueued for the container and the container eventually
\* has the status completed or error.
C29_MergeEventuallyRuns ==
  AllChildrenExitZero(1) ~> (MergeEnqueued(1) /\ docs[1].status \in Terminal)

\* all pages exited 0, a merge job was enqueued and the container completed
C29_Witness ==
  /\ AllChildrenExitZero(1)
  /\ Cardinality(ChildrenOf(1)) = MaxPages
  /\ MergeEnqueued(1)
  /\ docs[1].status = "completed"
  /\ \A j \in JobIds : jobs[j].pc = "done"

\* the stored files of document e in the file system f: the files of its
\* directory that carry the base name of its file
FilesOf(e, f) ==
  IF docs[e].dir \in Dirs /\ f[docs[e].dir].exists
  THEN {x \in f[docs[e].dir].files : x.base = docs[e].fname.base}
  ELSE {}

\* C30: delete_document on one document removes only that document's record
\* and files: no step of the handler changes the record or the stored
\* files of another document that remains in the registry (one that is not
\* a child of the deleted document), the siblings and the container of a
\* deleted child included.
C30_DeleteLeavesOthers ==
  [][\A r \in ReqIds :
       (reqs[r].kind = "delete" /\ reqs'[r] # reqs[r])
         => \A e \in DocIds \ {reqs[r].doc} :
              (docs[e].exists /\ docs'[e].exists /\ docs[e].parent # reqs[r].doc)
                => /\ docs'[e] = docs[e]
                   /\ FilesOf(e, fs') = FilesOf(e, fs)]_vars

\* C31: once delete_document on a container has committed and the
\* container's record is gone, no record of the registry has parent_id equal
\* to the deleted container's id, also when the delete interleaves with the
\* grouped upload that is still creating the container's children.
C31_NoOrphanedChild ==
  \A r \in ReqIds :
    (ReqAt(r, "delete", "done") /\ reqs[r].isc /\ ~docs[reqs[r].doc].exists)
      => ChildrenOf(reqs[r].doc) = {}

\* the message of the exception merge_document_task raises when its query
\* finds no children
NoChildren == ExcMessage("No children found to merge")

\* C32: a merge job that finds no children of its container has not invoked
\* the pipeline, and its last step leaves the container with status error
\* and the message 'No children found to merge' and with the output paths
\* it had.
C32_ChildlessMergeEndsInError ==
  [][\A j \in JobIds :
       ( /\ jobs[j].kind = "merge" /\ jobs[j].pc = "finally"
         /\ jobs[j].pend.err = NoChildren
         /\ jobs'[j].pc = "done"
         /\ docs[jobs[j].doc].exists )
       => /\ jobs[j].rc = -1
          /\ jobs[j].args = celery_argv
          /\ docs'[jobs[j].doc].status = "error"
          /\ docs'[jobs[j].doc].err = NoChildren
          /\ docs'[jobs[j].doc].txt = docs[jobs[j].doc].txt
          /\ docs'[jobs[j].doc].pdf = docs[jobs[j].doc].pdf]_vars

\* the input paths of job j
InputsOf(j) == IF jobs[j].kind = "single" THEN <<jobs[j].path>> ELSE jobs[j].paths

\* the segmentation model the submitted options select, or the default
Selected(o) ==
  IF o.given /\ o.valid /\ o.seg # "" THEN o.seg ELSE "historical-manuscript"

\* C33: the command of a process-single or process-batch job names the
\* segmentation model selected in the submitted options (the default when
\* none is selected), then the transcription model, then the input paths,
\* and holds --output followed by the output directory.
C33_CommandNamesSelectedModels ==
  \A j \in JobIds :
    jobs[j].pc = "done" =>
      LET c == jobs[j].cmd
          ins == InputsOf(j)
          k == Len(ins)
      IN /\ Len(c) >= 5 + k + 2
         /\ c[4] = Word(Selected(jobs[j].options))
         /\ c[5] = Word(jobs[j].model)
         /\ \A i \in 1..k : c[5 + i] = PathArg(ins[i])
         /\ \E i \in (5 + k + 1)..(Len(c) - 1) :
              /\ c[i] = Word("--output")
              /\ c[i + 1] = DirArg(dirname(ins[1]))

\* the calls before call i that count towards it: all calls, or only
\* those Redis has run
Before(i, all) == {j \in 1..(i - 1) : all \/ reqs[j].executed}

RECURSIVE Position(_, _)
\* the place of call i in its burst: a burst ends when MaxPeriod seconds
\* pass without a call
Position(i, all) ==
  IF Before(i, all) = {} THEN 1
  ELSE LET prev == SetMax(Before(i, all)) IN
       IF reqs[i].at - reqs[prev].at >= MaxPeriod THEN 1
       ELSE Position(prev, all) + 1

\* C34 as stated: a call is rejected with HTTP 429 exactly when more than
\* limit calls, itself included, were made in its burst.
C34_Stated ==
  \A i \in ReqIds : reqs[i].status = 429 <=> Position(i, TRUE) > MaxLimit

\* C34: a call that Redis has not answered passes; a call that Redis has
\* answered is rejected with HTTP 429 exactly when more than limit calls
\* run by Redis, itself included, lie in its burst, where every call run
\* by Redis, accepted or rejected, restarts the period.
C34_RateLimit ==
  \A i \in ReqIds :
    /\ ~reqs[i].answered => reqs[i].status = 200
    /\ reqs[i].answered => (reqs[i].status = 429 <=> Position(i, FALSE) > MaxLimit)

\* A client has been rejected more than MaxPeriod seconds after the first
\* call of the burst, and has passed again after a quiet period.
C34_Witness ==
  \E i, j, k \in ReqIds :
    /\ i < j /\ j < k
    /\ \A c \in ReqIds : reqs[c].answered
    /\ Position(i, FALSE) = 1
    /\ Position(j, FALSE) > MaxLimit
    /\ reqs[j].at - reqs[i].at >= MaxPeriod
    /\ reqs[j].status = 429
    /\ Position(k, FALSE) = 1 /\ reqs[k].status = 200

\* the users created by register requests that carried token t
UsersVia(t) == {u \in AllUsers : users[u].token = t}

\* C35: in invite mode at most one user has been created with one
\* invitation token, and the invitation of a user created with it is
\* marked used.
C35_InvitationAdmitsOne ==
  \A t \in Invites :
    /\ Cardinality(UsersVia(t)) <= 1
    /\ UsersVia(t) # {} => invitations[t].is_used

\* C36: in every state reached from one with an unlocked administrator
\* there is an unlocked administrator, whatever update_user_role,
\* update_user and delete_user requests were made and however they
\* interleave.
C36_UnlockedAdminRemains ==
  \E u \in AllUsers : users[u].is_admin /\ ~users[u].is_locked

\* request r is made, or ends, in this step
Ends(r) == r \notin ReqIds \/ reqs[r].pc # "done"

\* C37: get_user_preferences returns for every key the stored value, or the
\* system default when none is stored; an update that succeeds stores the
\* values it names and leaves every other key of the user, and every other
\* user's preferences, as they were; after a reset nothing is stored for
\* the user.
C37_PreferencesKept ==
  [][\A r \in 1..Len(reqs') :
       (Ends(r) /\ reqs'[r].pc = "done" /\ reqs'[r].status = 200) =>
         LET u == reqs'[r].user IN
         /\ reqs'[r].kind = "get" =>
              reqs'[r].result = merge(default_state, Stored(u))
         /\ reqs'[r].kind = "update_prefs" =>
              /\ preferences'[u].exists
              /\ preferences'[u].preferences = merge(Stored(u), reqs'[r].update)
              /\ \A v \in UserIds \ {u} : preferences'[v] = preferences[v]
         /\ reqs'[r].kind = "reset" =>
              /\ ~preferences'[u].exists
              /\ \A v \in UserIds \ {u} : preferences'[v] = preferences[v]]_vars
====
